---- MODULE Spec2Model ----
(***************************************************************************)
(* A model of the Monkey front end: the lexer, the Pratt parser and the    *)
(* canonical rendering of the AST.                                         *)
(*                                                                         *)
(* Text is a sequence of one-character strings; the byte 0 is NUL.  A Go   *)
(* string (a token literal, a rendering) is such a sequence.  A parse      *)
(* function of the parser is an operator from the parser value to the      *)
(* record [p |-> the parser afterwards, v |-> the value returned]; the     *)
(* loop of ParseProgram is the state machine.                              *)
(***************************************************************************)
EXTENDS Integers, Sequences, FiniteSets, TLC

VARIABLES
    p,        \* the Parser: lexer, errors, progress, currToken, peekToken,
              \* and log, the history of its block loops
    program,  \* Program.Statements built so far
    pc        \* "loop": at the head of ParseProgram's loop; "done": returned

vars == <<p, program, pc>>

(***************************************************************************)
(* Characters                                                              *)
(***************************************************************************)
NUL == "NUL"

LowerCase ==
    {"a", "b", "c", "d", "e", "f", "g", "h", "i", "j", "k", "l", "m",
     "n", "o", "p", "q", "r", "s", "t", "u", "v", "w", "x", "y", "z"}

UpperCase ==
    {"A", "B", "C", "D", "E", "F", "G", "H", "I", "J", "K", "L", "M",
     "N", "O", "P", "Q", "R", "S", "T", "U", "V", "W", "X", "Y", "Z"}

isLetter(ch) == ch \in LowerCase \/ ch \in UpperCase \/ ch = "_"

isDigit(ch) == ch \in {"0", "1", "2", "3", "4", "5", "6", "7", "8", "9"}

isWhitespace(ch) == ch \in {" ", "\t", "\n", "\r"}

(***************************************************************************)
(* Tokens                                                                  *)
(***************************************************************************)
ILLEGAL == "ILLEGAL"
EOF == "EOF"
NAME == "NAME"
INT == "INT"
ASSIGN == "="
PLUS == "+"
MINUS == "-"
BANG == "!"
STAR == "*"
SLASH == "/"
GT == ">"
LT == "<"
EQ == "=="
NEQ == "!="
COMMA == ","
SEMICOLON == ";"
LPAREN == "("
RPAREN == ")"
LBRACE == "{"
RBRACE == "}"
FUNCTION == "FUNCTION"
LET_ == "LET"
TRUE_ == "TRUE"
FALSE_ == "FALSE"
IF_ == "IF"
ELSE_ == "ELSE"
RETURN == "RETURN"

Token(type, literal) == [Type |-> type, Literal |-> literal]

\* token.New: a token of one character
NewToken(tokenType, ch) == Token(tokenType, <<ch>>)

\* the zero value of token.Token
ZeroToken == Token("", <<>>)

keywords ==
    (<<"f", "n">> :> FUNCTION)
    @@ (<<"l", "e", "t">> :> LET_)
    @@ (<<"t", "r", "u", "e">> :> TRUE_)
    @@ (<<"f", "a", "l", "s", "e">> :> FALSE_)
    @@ (<<"i", "f">> :> IF_)
    @@ (<<"e", "l", "s", "e">> :> ELSE_)
    @@ (<<"r", "e", "t", "u", "r", "n">> :> RETURN)

\* a lookup that takes a name starting with a reserved word for the word
LookupIdent_Prefix(ident) ==
    IF \E k \in DOMAIN keywords : Len(k) <= Len(ident) /\ SubSeq(ident, 1, Len(k)) = k
    THEN keywords[CHOOSE k \in DOMAIN keywords :
                      Len(k) <= Len(ident) /\ SubSeq(ident, 1, Len(k)) = k]
    ELSE NAME

LookupIdent(ident) ==
    IF ident \in DOMAIN keywords THEN keywords[ident] ELSE NAME

(***************************************************************************)
(* Lexer                                                                   *)
(***************************************************************************)
\* Go indexes input from 0, a TLA+ sequence from 1
readChar(l) ==
    [l EXCEPT
        !.ch = IF l.nextPosition >= Len(l.input)
               THEN NUL
               ELSE l.input[l.nextPosition + 1],
        !.currPosition = l.nextPosition,
        !.nextPosition = l.nextPosition + 1]

NewLexer(input) ==
    readChar([input |-> input, currPosition |-> 0, nextPosition |-> 0, ch |-> NUL])

RECURSIVE skipWhitespace(_)
\* a loop that skips the space only
skipWhitespace_SpacesOnly(l) ==
    IF l.ch = " " THEN skipWhitespace(readChar(l)) ELSE l

skipWhitespace(l) ==
    IF isWhitespace(l.ch) THEN skipWhitespace(readChar(l)) ELSE l

\* the loop of readWhile: the lexer after the run of characters
RECURSIVE readRun(_, _)
readRun(l, digits) ==
    IF (IF digits THEN isDigit(l.ch) ELSE isLetter(l.ch))
    THEN readRun(readChar(l), digits)
    ELSE l

\* readWhile(isLetter) and readWhile(isDigit): the lexer afterwards and
\* input[position:currPosition]
readWhile_Slice(l, l1) ==
    [l |-> l1, s |-> SubSeq(l.input, l.currPosition + 1, l1.currPosition)]

readWhile(l, digits) == readWhile_Slice(l, readRun(l, digits))

readIdentifier(l) == readWhile(l, FALSE)

readNumber(l) == readWhile(l, TRUE)

\* the character after the current one, not consumed
peekChar(l) ==
    IF l.nextPosition >= Len(l.input) THEN NUL ELSE l.input[l.nextPosition + 1]

\* the operator tokens without the slash
OperatorTokens_NoSlash ==
    ("-" :> MINUS) @@ ("!" :> BANG) @@ ("*" :> STAR)
    @@ ("<" :> LT) @@ (">" :> GT)

\* The operator tokens that the switch of lexer.go does not list and the
\* lexer's test expects: - ! * / < > and the two-character == and !=
OperatorTokens ==
    ("-" :> MINUS) @@ ("!" :> BANG) @@ ("*" :> STAR)
    @@ ("/" :> SLASH) @@ ("<" :> LT) @@ (">" :> GT)

\* a lexer that decides on the current character alone
startsTwoCharOperator_NoLookahead(l) == FALSE

startsTwoCharOperator(l) == l.ch \in {"=", "!"} /\ peekChar(l) = "="

startsOperator(l) == startsTwoCharOperator(l) \/ l.ch \in DOMAIN OperatorTokens

readOperator(l) ==
    IF startsTwoCharOperator(l)
    THEN [l |-> readChar(readChar(l)),
          tok |-> Token(IF l.ch = "=" THEN EQ ELSE NEQ, <<l.ch, "=">>)]
    ELSE [l |-> readChar(l), tok |-> NewToken(OperatorTokens[l.ch], l.ch)]

\* tok.Literal = l.readIdentifier(); tok.Type = token.LookupIdent(tok.Literal)
NextToken_Identifier(r) == [l |-> r.l, tok |-> Token(LookupIdent(r.s), r.s)]

\* tok.Type = token.INT; tok.Literal = l.readNumber()
NextToken_Number(r) == [l |-> r.l, tok |-> Token(INT, r.s)]

\* the switch of NextToken, after skipWhitespace
NextToken_Switch(l) ==
    IF startsOperator(l) THEN readOperator(l)
    ELSE CASE l.ch = "=" -> [l |-> readChar(l), tok |-> NewToken(ASSIGN, l.ch)]
      [] l.ch = ";" -> [l |-> readChar(l), tok |-> NewToken(SEMICOLON, l.ch)]
      [] l.ch = "(" -> [l |-> readChar(l), tok |-> NewToken(LPAREN, l.ch)]
      [] l.ch = ")" -> [l |-> readChar(l), tok |-> NewToken(RPAREN, l.ch)]
      [] l.ch = "," -> [l |-> readChar(l), tok |-> NewToken(COMMA, l.ch)]
      [] l.ch = "+" -> [l |-> readChar(l), tok |-> NewToken(PLUS, l.ch)]
      [] l.ch = "{" -> [l |-> readChar(l), tok |-> NewToken(LBRACE, l.ch)]
      [] l.ch = "}" -> [l |-> readChar(l), tok |-> NewToken(RBRACE, l.ch)]
      [] l.ch = NUL -> [l |-> readChar(l), tok |-> Token(EOF, <<>>)]
      [] OTHER ->
            IF isLetter(l.ch) THEN NextToken_Identifier(readIdentifier(l))
            ELSE IF isDigit(l.ch) THEN NextToken_Number(readNumber(l))
            ELSE [l |-> readChar(l), tok |-> NewToken(ILLEGAL, l.ch)]

\* NextToken: [l |-> the lexer afterwards, tok |-> the token]
NextToken(l) == NextToken_Switch(skipWhitespace(l))

(***************************************************************************)
(* AST                                                                     *)
(*                                                                         *)
(* A node is a record with its kind and its fields.  Nil is the nil        *)
(* interface value and the nil pointer of a field; NilLetStatement is the  *)
(* nil *ast.LetStatement, which stays distinct from Nil once it is held in *)
(* an ast.Statement.  A slice that may be nil is [isNil, elems].           *)
(***************************************************************************)
Nil == [kind |-> "nil", type |-> "nil"]

NilLetStatement == [kind |-> "nil", type |-> "*ast.LetStatement"]

NilSlice == [isNil |-> TRUE, elems |-> <<>>]

Slice(elems) == [isNil |-> FALSE, elems |-> elems]

Identifier(tok, value) == [kind |-> "Identifier", Token |-> tok, Value |-> value]

IntegerLiteral(tok, value) ==
    [kind |-> "IntegerLiteral", Token |-> tok, Value |-> value]

BoolLiteral(tok, value) == [kind |-> "BoolLiteral", Token |-> tok, Value |-> value]

PrefixExpression(tok, operator, right) ==
    [kind |-> "PrefixExpression", Token |-> tok, Operator |-> operator,
     Right |-> right]

InfixExpression(tok, left, operator, right) ==
    [kind |-> "InfixExpression", Token |-> tok, Left |-> left,
     Operator |-> operator, Right |-> right]

BlockStatement(tok, statements) ==
    [kind |-> "BlockStatement", Token |-> tok, Statements |-> statements]

IfExpression(tok, condition, consequence, alternative) ==
    [kind |-> "IfExpression", Token |-> tok, Condition |-> condition,
     Consequence |-> consequence, Alternative |-> alternative]

FunctionLiteral(tok, parameters, body) ==
    [kind |-> "FunctionLiteral", Token |-> tok, Parameters |-> parameters,
     Body |-> body]

CallExpression(tok, function, arguments) ==
    [kind |-> "CallExpression", Token |-> tok, Function |-> function,
     Arguments |-> arguments]

LetStatement(tok, name, value) ==
    [kind |-> "LetStatement", Token |-> tok, Name |-> name, Value |-> value]

ReturnStatement(tok, returnValue) ==
    [kind |-> "ReturnStatement", Token |-> tok, ReturnValue |-> returnValue]

ExpressionStatement(tok, expression) ==
    [kind |-> "ExpressionStatement", Token |-> tok, Expression |-> expression]

(***************************************************************************)
(* strconv.ParseInt(s, 0, 64) on a run of decimal digits                   *)
(***************************************************************************)
DigitValue ==
    ("0" :> 0) @@ ("1" :> 1) @@ ("2" :> 2) @@ ("3" :> 3) @@ ("4" :> 4)
    @@ ("5" :> 5) @@ ("6" :> 6) @@ ("7" :> 7) @@ ("8" :> 8) @@ ("9" :> 9)

\* the value of the digits s in the given base
RECURSIVE digitsValue(_, _)
digitsValue(s, base) ==
    IF s = <<>> THEN 0
    ELSE digitsValue(SubSeq(s, 1, Len(s) - 1), base) * base + DigitValue[s[Len(s)]]

\* s without its leading zeros
RECURSIVE stripZeros(_)
stripZeros(s) ==
    IF s # <<>> /\ s[1] = "0" THEN stripZeros(Tail(s)) ELSE s

MaxInt64Digits ==
    <<"9", "2", "2", "3", "3", "7", "2", "0", "3", "6", "8", "5", "4", "7", "7",
      "5", "8", "0", "7">>

\* a < b for digit runs of one length
RECURSIVE digitsLess(_, _)
digitsLess(a, b) ==
    IF a = <<>> THEN FALSE
    ELSE IF a[1] # b[1] THEN DigitValue[a[1]] < DigitValue[b[1]]
    ELSE digitsLess(Tail(a), Tail(b))

\* the decimal digits d denote more than 2^63 - 1
exceedsInt64(d) ==
    LET n == stripZeros(d)
    IN  Len(n) > Len(MaxInt64Digits)
        \/ (Len(n) = Len(MaxInt64Digits) /\ digitsLess(MaxInt64Digits, n))

\* Base 0: a leading "0" followed by more digits selects base 8, in which
\* the digits 8 and 9 are a syntax error; otherwise the base is 10.  An
\* octal run of up to 21 digits is at most 2^63 - 1, so within the lengths
\* used here only a decimal run can be out of range.
ParseInt(s) ==
    IF Len(s) > 1 /\ s[1] = "0"
    THEN IF \E i \in 2..Len(s) : s[i] \in {"8", "9"}
         THEN [ok |-> FALSE, value |-> 0]
         ELSE [ok |-> TRUE, value |-> digitsValue(Tail(s), 8)]
    ELSE IF exceedsInt64(s)
         THEN [ok |-> FALSE, value |-> 0]
         ELSE [ok |-> TRUE, value |-> digitsValue(s, 10)]

(***************************************************************************)
(* Parser                                                                  *)
(***************************************************************************)
LOWEST == 1
EQUALS == 2
LTGT == 3
SUM == 4
PRODUCT == 5
PREFIX == 6
CALL == 7

precedences ==
    (EQ :> EQUALS) @@ (NEQ :> EQUALS) @@ (LT :> LTGT) @@ (GT :> LTGT)
    @@ (PLUS :> SUM) @@ (MINUS :> SUM) @@ (STAR :> PRODUCT) @@ (SLASH :> PRODUCT)
    @@ (LPAREN :> CALL)

\* the prefix parse functions New registers, by name
prefixParseFns ==
    (NAME :> "parseIdentifier") @@ (INT :> "parseIntegerLiteral")
    @@ (BANG :> "parsePrefixExpression") @@ (MINUS :> "parsePrefixExpression")
    @@ (TRUE_ :> "parseBoolLiteral") @@ (FALSE_ :> "parseBoolLiteral")
    @@ (LPAREN :> "parseGroupedExpression") @@ (IF_ :> "parseIfExpression")
    @@ (FUNCTION :> "parseFunctionLiteral")

\* the infix parse functions New registers, by name
infixParseFns ==
    (PLUS :> "parseInfixExpression") @@ (MINUS :> "parseInfixExpression")
    @@ (SLASH :> "parseInfixExpression") @@ (STAR :> "parseInfixExpression")
    @@ (EQ :> "parseInfixExpression") @@ (NEQ :> "parseInfixExpression")
    @@ (LT :> "parseInfixExpression") @@ (GT :> "parseInfixExpression")
    @@ (LPAREN :> "parseCallExpression")

\* what a parse function returns: the parser afterwards and the value
R(q, v) == [p |-> q, v |-> v]

\* p.currToken = p.peekToken; p.peekToken = the token r.tok just read
advance_Shift(q, r) ==
    [q EXCEPT !.currToken = q.peekToken,
              !.peekToken = r.tok,
              !.l = r.l,
              !.progress = Append(q.progress, q.peekToken.Literal)]

advance(q) == advance_Shift(q, NextToken(q.l))

flushProgress(q) == [q EXCEPT !.progress = <<>>]

\* log is a history variable, not a field of the Go struct: the block
\* loops record their iterations and their exits in it
New(l) ==
    advance(advance([l |-> l, errors |-> <<>>, progress |-> <<>>,
                     currToken |-> ZeroToken, peekToken |-> ZeroToken,
                     log |-> <<>>]))

Logged(q, event) == [q EXCEPT !.log = Append(q.log, event)]

currTokenIs(q, t) == q.currToken.Type = t

nextTokenIs(q, t) == q.peekToken.Type = t

\* the message keeps its parts: expected kind, actual kind, Progress()
\* a diagnostic that names the current token's kind as the one it got
peekError_GotCurrent(q, t) ==
    [q EXCEPT !.errors = Append(q.errors,
        [msg |-> "expected next token", expected |-> t,
         got |-> q.currToken.Type, parsing |-> q.progress])]

peekError(q, t) ==
    [q EXCEPT !.errors = Append(q.errors,
        [msg |-> "expected next token", expected |-> t,
         got |-> q.peekToken.Type, parsing |-> q.progress])]

\* [p |-> the parser afterwards, ok |-> the boolean returned]
advanceIfNextTokenIs(q, t) ==
    IF nextTokenIs(q, t)
    THEN [p |-> advance(q), ok |-> TRUE]
    ELSE [p |-> peekError(q, t), ok |-> FALSE]

\* mutant: a token without a prefix function leaves no diagnostic
noPrefixParseFnError_Silent(q, t) == q

noPrefixParseFnError(q, t) ==
    [q EXCEPT !.errors = Append(q.errors,
        [msg |-> "no prefix parse function", type |-> t])]

peekPrecedence(q) ==
    IF q.peekToken.Type \in DOMAIN precedences
    THEN precedences[q.peekToken.Type]
    ELSE LOWEST

currPrecedence(q) ==
    IF q.currToken.Type \in DOMAIN precedences
    THEN precedences[q.currToken.Type]
    ELSE LOWEST

parseIdentifier(q) == R(q, Identifier(q.currToken, q.currToken.Literal))

parseBoolLiteral(q) == R(q, BoolLiteral(q.currToken, currTokenIs(q, TRUE_)))

\* a conversion whose error is ignored: the literal keeps the zero value
parseIntegerLiteral_Value_ErrorIgnored(q, r) ==
    R(q, IntegerLiteral(q.currToken, r.value))

parseIntegerLiteral_Value(q, r) ==
    IF ~r.ok
    THEN R([q EXCEPT !.errors = Append(q.errors,
               [msg |-> "could not parse as integer",
                literal |-> q.currToken.Literal])],
           Nil)
    ELSE R(q, IntegerLiteral(q.currToken, r.value))

parseIntegerLiteral(q) == parseIntegerLiteral_Value(q, ParseInt(q.currToken.Literal))

\* for p.nextTokenIs(token.SEMICOLON) { p.advance() }
RECURSIVE skipSemicolons(_)
skipSemicolons(q) ==
    IF nextTokenIs(q, SEMICOLON) THEN skipSemicolons(advance(q)) ELSE q

(***************************************************************************)
(* The rules.  A rule named parseX is the Go method; an operator           *)
(* parseX_Part is the rest of that method from the named part on, given    *)
(* what the method holds by then: tok is the token the node was created    *)
(* with, a the result of advanceIfNextTokenIs, e the result of             *)
(* parseExpression.                                                        *)
(***************************************************************************)
RECURSIVE parseStatement(_)
RECURSIVE parseLetStatement(_)
RECURSIVE parseLetStatement_Name(_, _)
RECURSIVE parseLetStatement_Assign(_, _, _)
RECURSIVE parseLetStatement_Value(_, _, _)
RECURSIVE parseReturnStatement(_)
RECURSIVE parseReturnStatement_Value(_, _)
RECURSIVE parseExpressionStatement(_)
RECURSIVE parseExpressionStatement_Expression(_, _)
RECURSIVE parseExpression(_, _)
RECURSIVE infixLoop(_, _)
RECURSIVE callPrefix(_, _)
RECURSIVE callInfix(_, _, _)
RECURSIVE parseGroupedExpression(_)
RECURSIVE parseGroupedExpression_Close(_)
RECURSIVE parseGroupedExpression_Return(_, _)
RECURSIVE parsePrefixExpression(_)
RECURSIVE parsePrefixExpression_Right(_, _)
RECURSIVE parseInfixExpression(_, _)
RECURSIVE parseInfixExpression_Right(_, _, _)
RECURSIVE parseIfExpression(_)
RECURSIVE parseIfExpression_Condition(_, _)
RECURSIVE parseIfExpression_CloseParen(_, _)
RECURSIVE parseIfExpression_OpenBrace(_, _, _)
RECURSIVE parseIfExpression_Consequence(_, _, _)
RECURSIVE parseIfExpression_Else(_, _, _)
RECURSIVE parseIfExpression_Alternative(_, _, _, _)
RECURSIVE parseIfExpression_Return(_, _, _, _)
RECURSIVE parseBlockStatement(_)
RECURSIVE parseBlockStatement_Return(_, _)
RECURSIVE blockIteration(_, _)
RECURSIVE blockIteration_Append(_, _, _)
RECURSIVE blockIteration_Advance(_, _, _)
RECURSIVE blockLoop(_)
RECURSIVE parseFunctionLiteral(_)
RECURSIVE parseFunctionLiteral_Parameters(_, _)
RECURSIVE parseFunctionLiteral_OpenBrace(_, _)
RECURSIVE parseFunctionLiteral_Body(_, _, _)
RECURSIVE parseFunctionLiteral_Return(_, _, _)
RECURSIVE parseCallExpression(_, _)
RECURSIVE parseCallExpression_Return(_, _, _)
RECURSIVE parseCallArguments(_)
RECURSIVE parseCallArguments_Append(_, _)
RECURSIVE parseCallArguments_Close(_)
RECURSIVE parseCallArguments_Return(_, _)
RECURSIVE callArgumentsLoop(_)

\* A nil *ast.LetStatement returned here as an ast.Statement is an
\* interface value that holds a nil pointer: it is not Nil.
parseStatement(q) ==
    CASE q.currToken.Type = LET_ -> parseLetStatement(q)
      [] q.currToken.Type = RETURN -> parseReturnStatement(q)
      [] OTHER -> parseExpressionStatement(q)

parseLetStatement(q) ==
    parseLetStatement_Name(q.currToken, advanceIfNextTokenIs(q, NAME))

\* from `if !p.advanceIfNextTokenIs(token.NAME)` on
parseLetStatement_Name(tok, a) ==
    IF ~a.ok THEN R(a.p, NilLetStatement)
    ELSE parseLetStatement_Assign(tok,
             Identifier(a.p.currToken, a.p.currToken.Literal),
             advanceIfNextTokenIs(a.p, ASSIGN))

\* from `if !p.advanceIfNextTokenIs(token.ASSIGN)` on
parseLetStatement_Assign(tok, name, a) ==
    IF ~a.ok THEN R(a.p, NilLetStatement)
    ELSE parseLetStatement_Value(tok, name, parseExpression(advance(a.p), LOWEST))

\* mutant: the let rule leaves the semicolon to the next statement
parseLetStatement_Value_KeepSemicolon(tok, name, e) ==
    R(e.p, LetStatement(tok, name, e.v))

\* from `stmt.Value = ` on
parseLetStatement_Value(tok, name, e) ==
    R(skipSemicolons(e.p), LetStatement(tok, name, e.v))

parseReturnStatement(q) ==
    parseReturnStatement_Value(q.currToken, parseExpression(advance(q), LOWEST))

\* from `stmt.ReturnValue = ` on
\* a return statement that consumes one semicolon at most
parseReturnStatement_Value_OneSemicolon(tok, e) ==
    R(IF nextTokenIs(e.p, SEMICOLON) THEN advance(e.p) ELSE e.p,
      ReturnStatement(tok, e.v))

parseReturnStatement_Value(tok, e) ==
    R(skipSemicolons(e.p), ReturnStatement(tok, e.v))

\* mutant: the semicolon after an expression statement is required
parseExpressionStatement_Expression_Required(tok, e) ==
    R(advanceIfNextTokenIs(e.p, SEMICOLON).p, ExpressionStatement(tok, e.v))

parseExpressionStatement(q) ==
    parseExpressionStatement_Expression(q.currToken, parseExpression(q, LOWEST))

\* from `stmt.Expression = ` on
parseExpressionStatement_Expression(tok, e) ==
    R(IF nextTokenIs(e.p, SEMICOLON) THEN advance(e.p) ELSE e.p,
      ExpressionStatement(tok, e.v))

parseExpression(q, precedence) ==
    IF q.currToken.Type \notin DOMAIN prefixParseFns
    THEN R(noPrefixParseFnError(q, q.currToken.Type), Nil)
    ELSE infixLoop(callPrefix(prefixParseFns[q.currToken.Type], q), precedence)

\* the for loop of parseExpression; left holds the parser and leftExp
infixLoop(left, precedence) ==
    IF ~nextTokenIs(left.p, SEMICOLON) /\ precedence < peekPrecedence(left.p)
    THEN IF left.p.peekToken.Type \notin DOMAIN infixParseFns
         THEN left
         ELSE infixLoop(callInfix(infixParseFns[left.p.peekToken.Type],
                                  advance(left.p), left.v),
                        precedence)
    ELSE left

\* the call prefix() of a registered prefix parse function
callPrefix(fn, q) ==
    CASE fn = "parseIdentifier" -> parseIdentifier(q)
      [] fn = "parseIntegerLiteral" -> parseIntegerLiteral(q)
      [] fn = "parsePrefixExpression" -> parsePrefixExpression(q)
      [] fn = "parseBoolLiteral" -> parseBoolLiteral(q)
      [] fn = "parseGroupedExpression" -> parseGroupedExpression(q)
      [] fn = "parseIfExpression" -> parseIfExpression(q)
      [] fn = "parseFunctionLiteral" -> parseFunctionLiteral(q)

\* the call infix(leftExp) of a registered infix parse function
callInfix(fn, q, left) ==
    CASE fn = "parseInfixExpression" -> parseInfixExpression(q, left)
      [] fn = "parseCallExpression" -> parseCallExpression(q, left)

\* mutant: the expression between the parentheses is parsed with PREFIX
parseGroupedExpression_Prefix(q) ==
    parseGroupedExpression_Close(parseExpression(advance(q), PREFIX))

parseGroupedExpression(q) ==
    parseGroupedExpression_Close(parseExpression(advance(q), LOWEST))

\* from `if !p.advanceIfNextTokenIs(token.RPAREN)` on
parseGroupedExpression_Close(e) ==
    parseGroupedExpression_Return(e.v, advanceIfNextTokenIs(e.p, RPAREN))

parseGroupedExpression_Return(exp, a) ==
    IF ~a.ok THEN R(a.p, Nil) ELSE R(a.p, exp)

\* mutant: the operand of a prefix operator is parsed with LOWEST
parsePrefixExpression_Lowest(q) ==
    parsePrefixExpression_Right(q.currToken, parseExpression(advance(q), LOWEST))

parsePrefixExpression(q) ==
    parsePrefixExpression_Right(q.currToken, parseExpression(advance(q), PREFIX))

\* from `expression.Right = ` on
parsePrefixExpression_Right(tok, e) ==
    R(e.p, PrefixExpression(tok, tok.Literal, e.v))

\* mutant: the right operand is parsed one level below the operator's own
parseInfixExpression_RightAssociative(q, left) ==
    parseInfixExpression_Right(q.currToken, left,
        parseExpression(advance(q), currPrecedence(q) - 1))

parseInfixExpression(q, left) ==
    parseInfixExpression_Right(q.currToken, left,
        parseExpression(advance(q), currPrecedence(q)))

\* from `expression.Right = ` on
parseInfixExpression_Right(tok, left, e) ==
    R(e.p, InfixExpression(tok, left, tok.Literal, e.v))

parseIfExpression(q) ==
    parseIfExpression_Condition(q.currToken, advanceIfNextTokenIs(q, LPAREN))

\* from `if !p.advanceIfNextTokenIs(token.LPAREN)` on
parseIfExpression_Condition(tok, a) ==
    IF ~a.ok THEN R(a.p, Nil)
    ELSE parseIfExpression_CloseParen(tok, parseExpression(advance(a.p), LOWEST))

\* from `if !p.advanceIfNextTokenIs(token.RPAREN)` on; c is the condition
parseIfExpression_CloseParen(tok, c) ==
    parseIfExpression_OpenBrace(tok, c.v, advanceIfNextTokenIs(c.p, RPAREN))

\* from `if !p.advanceIfNextTokenIs(token.LBRACE)` on
parseIfExpression_OpenBrace(tok, condition, a) ==
    IF ~a.ok THEN R(a.p, Nil)
    ELSE parseIfExpression_Consequence(tok, condition,
             advanceIfNextTokenIs(a.p, LBRACE))

\* from `expression.Consequence = ` on
parseIfExpression_Consequence(tok, condition, a) ==
    IF ~a.ok THEN R(a.p, Nil)
    ELSE parseIfExpression_Else(tok, condition, parseBlockStatement(a.p))

\* from `if p.nextTokenIs(token.ELSE)` on; cons is the consequence
parseIfExpression_Else(tok, condition, cons) ==
    IF nextTokenIs(cons.p, ELSE_)
    THEN parseIfExpression_Alternative(tok, condition, cons.v,
             advanceIfNextTokenIs(advance(cons.p), LBRACE))
    ELSE R(cons.p, IfExpression(tok, condition, cons.v, Nil))

\* from the `if !p.advanceIfNextTokenIs(token.LBRACE)` of the else branch on
parseIfExpression_Alternative(tok, condition, consequence, a) ==
    IF ~a.ok THEN R(a.p, Nil)
    ELSE parseIfExpression_Return(tok, condition, consequence,
             parseBlockStatement(a.p))

\* mutant: the two blocks are stored in each other's field
parseIfExpression_Return_Swapped(tok, condition, consequence, alt) ==
    R(alt.p, IfExpression(tok, condition, alt.v, consequence))

parseIfExpression_Return(tok, condition, consequence, alt) ==
    R(alt.p, IfExpression(tok, condition, consequence, alt.v))

parseBlockStatement(q) ==
    parseBlockStatement_Return(q.currToken, blockLoop(R(advance(q), <<>>)))

\* a block that records a diagnostic when its loop has stopped at EOF
parseBlockStatement_Return_BraceRequired(tok, r) ==
    R(IF currTokenIs(r.p, EOF) THEN peekError(r.p, RBRACE) ELSE r.p,
      BlockStatement(tok, r.v))

parseBlockStatement_Return(tok, r) == R(r.p, BlockStatement(tok, r.v))

\* one iteration of the for loop of parseBlockStatement
blockIteration(q, statements) ==
    blockIteration_Append(q, statements, parseStatement(q))

\* `if stmt != nil { append }`; q is the parser the iteration began with
blockIteration_Append(q, statements, stmt) ==
    blockIteration_Advance(q, advance(stmt.p),
        IF stmt.v # Nil THEN Append(statements, stmt.v) ELSE statements)

\* p.advance(); the log records the lexer position before and after the
\* iteration
blockIteration_Advance(q, q1, statements) ==
    R(Logged(q1, [event |-> "blockIteration",
                  before |-> q.l.nextPosition, after |-> q1.l.nextPosition]),
      statements)

\* the for loop of parseBlockStatement; r holds the parser and the
\* statements; the log records the token the loop stopped at
blockLoop(r) ==
    IF ~currTokenIs(r.p, RBRACE) /\ ~currTokenIs(r.p, EOF)
    THEN blockLoop(blockIteration(r.p, r.v))
    ELSE R(Logged(r.p, [event |-> "blockEnd", at |-> r.p.currToken.Type]), r.v)

RECURSIVE functionParametersLoop(_, _)
RECURSIVE parseFunctionParameters_Append(_, _)

\* for p.nextTokenIs(token.COMMA) { advance; advance; append the identifier }
functionParametersLoop(q, identifiers) ==
    IF nextTokenIs(q, COMMA)
    THEN parseFunctionParameters_Append(advance(advance(q)), identifiers)
    ELSE R(q, identifiers)

\* ident := &ast.Identifier{...}; identifiers = append(identifiers, ident)
parseFunctionParameters_Append(q, identifiers) ==
    functionParametersLoop(q,
        Append(identifiers, Identifier(q.currToken, q.currToken.Literal)))

parseFunctionParameters_Return(identifiers, a) ==
    IF ~a.ok THEN R(a.p, NilSlice) ELSE R(a.p, Slice(identifiers))

\* from `if !p.advanceIfNextTokenIs(token.RPAREN)` on
parseFunctionParameters_Close(r) ==
    parseFunctionParameters_Return(r.v, advanceIfNextTokenIs(r.p, RPAREN))

parseFunctionParameters(q) ==
    IF nextTokenIs(q, RPAREN) THEN R(advance(q), Slice(<<>>))
    ELSE parseFunctionParameters_Close(
             parseFunctionParameters_Append(advance(q), <<>>))

parseFunctionLiteral(q) ==
    parseFunctionLiteral_Parameters(q.currToken, advanceIfNextTokenIs(q, LPAREN))

\* from `if !p.advanceIfNextTokenIs(token.LPAREN)` on
parseFunctionLiteral_Parameters(tok, a) ==
    IF ~a.ok THEN R(a.p, Nil)
    ELSE parseFunctionLiteral_OpenBrace(tok, parseFunctionParameters(a.p))

\* from `if !p.advanceIfNextTokenIs(token.LBRACE)` on
parseFunctionLiteral_OpenBrace(tok, params) ==
    parseFunctionLiteral_Body(tok, params.v, advanceIfNextTokenIs(params.p, LBRACE))

\* from `fn.Body = ` on
parseFunctionLiteral_Body(tok, parameters, a) ==
    IF ~a.ok THEN R(a.p, Nil)
    ELSE parseFunctionLiteral_Return(tok, parameters, parseBlockStatement(a.p))

parseFunctionLiteral_Return(tok, parameters, body) ==
    R(body.p, FunctionLiteral(tok, parameters, body.v))

parseCallExpression(q, fn) ==
    parseCallExpression_Return(q.currToken, fn, parseCallArguments(q))

parseCallExpression_Return(tok, fn, args) ==
    R(args.p, CallExpression(tok, fn, args.v))

\* mutant: each argument is put in front of the earlier ones
parseCallArguments_Append_Front(args, e) == R(e.p, <<e.v>> \o args)

\* args = append(args, p.parseExpression(LOWEST))
parseCallArguments_Append(args, e) == R(e.p, Append(args, e.v))

\* for p.nextTokenIs(token.COMMA) { advance; advance; append the expression };
\* r holds the parser and args
callArgumentsLoop(r) ==
    IF nextTokenIs(r.p, COMMA)
    THEN callArgumentsLoop(parseCallArguments_Append(r.v,
             parseExpression(advance(advance(r.p)), LOWEST)))
    ELSE r

\* from `if !p.advanceIfNextTokenIs(token.RPAREN)` on
parseCallArguments_Close(r) ==
    parseCallArguments_Return(r.v, advanceIfNextTokenIs(r.p, RPAREN))

parseCallArguments_Return(args, a) ==
    IF ~a.ok THEN R(a.p, NilSlice) ELSE R(a.p, Slice(args))

parseCallArguments(q) ==
    IF nextTokenIs(q, RPAREN) THEN R(advance(q), Slice(<<>>))
    ELSE parseCallArguments_Close(callArgumentsLoop(
             parseCallArguments_Append(<<>>, parseExpression(advance(q), LOWEST))))

\* mutant: once a diagnostic is recorded no statement is appended
programIteration_DropAfterError(q, statements) ==
    LET stmt == parseStatement(q)
    IN  IF stmt.v # Nil /\ stmt.p.errors = <<>>
        THEN R(advance(flushProgress(stmt.p)), Append(statements, stmt.v))
        ELSE R(advance(stmt.p), statements)

\* mutant: the iteration does not advance past the statement
programIteration_NoAdvance(q, statements) ==
    LET stmt == parseStatement(q)
    IN  IF stmt.v # Nil
        THEN R(flushProgress(stmt.p), Append(statements, stmt.v))
        ELSE R(stmt.p, statements)

\* `if stmt != nil { flushProgress; append }; p.advance()`
\* a loop body that advances twice
programIteration_Append_AdvanceTwice(statements, stmt) ==
    IF stmt.v # Nil
    THEN R(advance(advance(flushProgress(stmt.p))), Append(statements, stmt.v))
    ELSE R(advance(advance(stmt.p)), statements)

programIteration_Append(statements, stmt) ==
    IF stmt.v # Nil
    THEN R(advance(flushProgress(stmt.p)), Append(statements, stmt.v))
    ELSE R(advance(stmt.p), statements)

\* the body of the for loop of ParseProgram: the parser and the statements
programIteration(q, statements) ==
    programIteration_Append(statements, parseStatement(q))

\* the for loop of ParseProgram, run to its end; r holds the parser and
\* the statements
RECURSIVE programLoop(_)
programLoop(r) ==
    IF ~currTokenIs(r.p, EOF)
    THEN programLoop(programIteration(r.p, r.v))
    ELSE r

\* New(lexer.New(input)).ParseProgram(): the parser afterwards and
\* Program.Statements
ParseProgram(input) == programLoop(R(New(NewLexer(input)), <<>>))

\* the tokens NextToken returns up to the first EOF
RECURSIVE lexAll(_)
lexAll(l) ==
    LET r == NextToken(l)
    IN  IF r.tok.Type = EOF THEN <<>> ELSE <<r.tok>> \o lexAll(r.l)

Tokens(input) == lexAll(NewLexer(input))

(***************************************************************************)
(* Canonical rendering: the String methods of the AST                      *)
(*                                                                         *)
(* A method that dereferences a nil receiver, or is called on a nil        *)
(* interface, panics: the rendering then holds the mark PANIC.             *)
(***************************************************************************)
PANIC == "PANIC"

\* strings.Join(elems, sep)
RECURSIVE Join(_, _)
Join(elems, sep) ==
    IF elems = <<>> THEN <<>>
    ELSE IF Len(elems) = 1 THEN elems[1]
    ELSE elems[1] \o sep \o Join(Tail(elems), sep)

\* PrefixExpression.String(): "(" Operator Right.String() ")"
PrefixExpression_String(operator, right) ==
    <<"(">> \o operator \o right \o <<")">>

\* the rendering of an infix expression with the parentheses left out
InfixExpression_String_Bare(left, operator, right) ==
    left \o <<" ">> \o operator \o <<" ">> \o right

\* InfixExpression.String(): "(" Left.String() " " Operator " "
\* Right.String() ")"
InfixExpression_String(left, operator, right) ==
    <<"(">> \o left \o <<" ">> \o operator \o <<" ">> \o right \o <<")">>

RECURSIVE String(_)
RECURSIVE StringEach(_)

\* the String() of every node of a sequence, in order
StringEach(nodes) ==
    IF nodes = <<>> THEN <<>>
    ELSE <<String(nodes[1])>> \o StringEach(Tail(nodes))

String(n) ==
    CASE n.kind = "nil" -> <<PANIC>>
      [] n.kind = "Identifier" -> n.Value
      [] n.kind = "IntegerLiteral" -> n.Token.Literal
      [] n.kind = "BoolLiteral" -> n.Token.Literal
      [] n.kind = "LetStatement" ->
            n.Token.Literal \o <<" ">> \o String(n.Name) \o <<" ", "=", " ">>
            \o (IF n.Value # Nil THEN String(n.Value) ELSE <<>>) \o <<";">>
      [] n.kind = "ReturnStatement" ->
            n.Token.Literal \o <<" ">>
            \o (IF n.ReturnValue # Nil THEN String(n.ReturnValue) ELSE <<>>)
            \o <<";">>
      [] n.kind = "ExpressionStatement" ->
            IF n.Expression # Nil THEN String(n.Expression) ELSE <<>>
      [] n.kind = "PrefixExpression" ->
            PrefixExpression_String(n.Operator, String(n.Right))
      [] n.kind = "InfixExpression" ->
            InfixExpression_String(String(n.Left), n.Operator, String(n.Right))
      [] n.kind = "BlockStatement" -> Join(StringEach(n.Statements), <<>>)
      [] n.kind = "IfExpression" ->
            <<"i", "f">> \o String(n.Condition) \o <<" ">> \o String(n.Consequence)
            \o (IF n.Alternative # Nil
                THEN <<"e", "l", "s", "e", " ">> \o String(n.Alternative)
                ELSE <<>>)
      [] n.kind = "FunctionLiteral" ->
            <<"f", "n">> \o <<"(">>
            \o Join(StringEach(n.Parameters.elems), <<",", " ">>)
            \o <<")">> \o String(n.Body)
      [] n.kind = "CallExpression" ->
            String(n.Function) \o <<"(">>
            \o Join(StringEach(n.Arguments.elems), <<",", " ">>) \o <<")">>

\* Program.String() of a program with the given Statements
ProgramString(statements) == Join(StringEach(statements), <<>>)

\* Program.TokenLiteral(): Statements[0].TokenLiteral(), "" when empty
ProgramTokenLiteral(statements) ==
    IF Len(statements) > 0
    THEN IF statements[1].kind = "nil" THEN <<PANIC>>
         ELSE statements[1].Token.Literal
    ELSE <<>>

Panics(s) == \E i \in 1..Len(s) : s[i] = PANIC

(***************************************************************************)
(* Inputs                                                                  *)
(*                                                                         *)
(* A source text is written as its words, which the text separates by one  *)
(* space.                                                                  *)
(***************************************************************************)
MaxLen == 3
MaxOps == 3
MaxExprLen == 5
MaxBodyLen == 3
MaxErrLen == 2
MaxDigits == 3
MaxRawLen == 4
MaxParams == 3
MaxStatements == 2
MaxArgs == 3

\* the calls of NextToken made once the input is exhausted
CallsAtEnd == 2

SeqsUpTo(S, n) == UNION {[1..k -> S] : k \in 0..n}

\* every token kind but the redundant ones, and the illegal character @
GeneralWords ==
    {<<"a">>, <<"5">>, <<"+">>, <<"*">>, <<"-">>, <<"(">>, <<")">>, <<"{">>,
     <<"}">>, <<",">>, <<";">>, <<"=">>, <<"l", "e", "t">>,
     <<"r", "e", "t", "u", "r", "n">>, <<"i", "f">>, <<"e", "l", "s", "e">>,
     <<"f", "n">>, <<"@">>}

BinaryOperators ==
    {<<"=", "=">>, <<"!", "=">>, <<"<">>, <<">">>, <<"+">>, <<"-">>, <<"*">>,
     <<"/">>}

\* operands: a name, integer literals (one with a leading zero), a boolean
FirstOperands == {<<"a">>, <<"5">>, <<"0", "8">>, <<"t", "r", "u", "e">>}

\* the operand after the i-th operator of a chain
OperandAt == <<<<"b">>, <<"c">>, <<"1", "0">>, <<"d">>, <<"f", "a", "l", "s", "e">>,
               <<"e">>, <<"7">>, <<"g">>>>

\* x0 op1 x1 ... opk xk
Chain(first, ops) ==
    [i \in 1..(2 * Len(ops) + 1) |->
        IF i = 1 THEN first
        ELSE IF i % 2 = 0 THEN ops[i \div 2]
        ELSE OperandAt[i \div 2]]

Chains ==
    {Chain(first, ops) : first \in FirstOperands,
                         ops \in SeqsUpTo(BinaryOperators, MaxOps)}

\* the inputs of the repository's tests and of its documentation
Examples ==
    {<<<<"l", "e", "t">>, <<"=">>, <<"5">>, <<";">>, <<"l", "e", "t">>, <<"y">>, <<"1", "0">>, <<";">>>>,
     <<<<"l", "e", "t">>, <<"x">>, <<"=">>, <<"5">>, <<";">>, <<"l", "e", "t">>, <<"y">>, <<"=">>, <<"t", "r", "u", "e">>, <<";">>, <<"l", "e", "t">>, <<"f", "o", "o", "b", "a", "r">>, <<"=">>, <<"y">>, <<";">>>>,
     <<<<"r", "e", "t", "u", "r", "n">>, <<"5">>, <<";">>, <<"r", "e", "t", "u", "r", "n">>, <<"1", "0">>, <<";">>, <<"r", "e", "t", "u", "r", "n">>, <<"9", "9", "3", "3", "2", "2">>, <<";">>>>,
     <<<<"a">>, <<"+">>, <<"b">>, <<"*">>, <<"c">>, <<"+">>, <<"d">>, <<"/">>, <<"e">>, <<"-">>, <<"f">>>>,
     <<<<"5">>, <<">">>, <<"4">>, <<"=", "=">>, <<"3">>, <<"<">>, <<"4">>>>,
     <<<<"5">>, <<"<">>, <<"4">>, <<"!", "=">>, <<"3">>, <<">">>, <<"4">>>>,
     <<<<"3">>, <<"+">>, <<"4">>, <<"*">>, <<"5">>, <<"=", "=">>, <<"3">>, <<"*">>, <<"1">>, <<"+">>, <<"4">>, <<"*">>, <<"5">>>>,
     <<<<"3">>, <<"+">>, <<"4">>, <<";">>, <<"-">>, <<"5">>, <<"*">>, <<"5">>>>,
     <<<<"3">>, <<">">>, <<"5">>, <<"=", "=">>, <<"f", "a", "l", "s", "e">>>>,
     <<<<"1">>, <<"+">>, <<"(">>, <<"1">>, <<"+">>, <<"3">>, <<")">>, <<"+">>, <<"4">>>>,
     <<<<"-">>, <<"(">>, <<"5">>, <<"+">>, <<"5">>, <<")">>>>,
     <<<<"!">>, <<"(">>, <<"t", "r", "u", "e">>, <<"=", "=">>, <<"t", "r", "u", "e">>, <<")">>>>,
     <<<<"a">>, <<"+">>, <<"a", "d", "d">>, <<"(">>, <<"b">>, <<"*">>, <<"c">>, <<")">>, <<"+">>, <<"d">>>>,
     <<<<"a", "d", "d">>, <<"(">>, <<"a">>, <<",">>, <<"b">>, <<",">>, <<"1">>, <<",">>, <<"2">>, <<"*">>, <<"3">>, <<",">>, <<"4">>, <<"+">>, <<"5">>, <<",">>, <<"a", "d", "d">>, <<"(">>, <<"6">>, <<",">>, <<"7">>, <<"*">>, <<"8">>, <<")">>, <<")">>>>,
     <<<<"a", "d", "d">>, <<"(">>, <<"a">>, <<"+">>, <<"b">>, <<"+">>, <<"c">>, <<"*">>, <<"d">>, <<"/">>, <<"f">>, <<"+">>, <<"g">>, <<")">>>>,
     <<<<"i", "f">>, <<"(">>, <<"x">>, <<"<">>, <<"y">>, <<")">>, <<"{">>, <<"x">>, <<"}">>>>,
     <<<<"i", "f">>, <<"(">>, <<"x">>, <<"<">>, <<"y">>, <<")">>, <<"{">>, <<"x">>, <<"}">>, <<"e", "l", "s", "e">>, <<"{">>, <<"y">>, <<"}">>>>,
     <<<<"f", "n">>, <<"(">>, <<"x">>, <<",">>, <<"y">>, <<")">>, <<"{">>, <<"x">>, <<"+">>, <<"y">>, <<";">>, <<"}">>>>,
     <<<<"f", "n">>, <<"(">>, <<"x">>, <<",">>, <<"y">>, <<",">>, <<"z">>, <<")">>, <<"{">>, <<"}">>, <<";">>>>,
     <<<<"a", "d", "d">>, <<"(">>, <<"1">>, <<",">>, <<"2">>, <<"*">>, <<"3">>, <<",">>, <<"4">>, <<"+">>, <<"5">>, <<")">>, <<";">>>>,
     <<<<"l", "e", "t">>, <<"x">>, <<"=">>, <<"5">>, <<";">>, <<";">>>>,
     <<<<"5">>, <<";">>, <<";">>>>,
     <<<<"i", "f">>, <<"(">>, <<"x">>, <<")">>, <<"{">>, <<"y">>>>,
     <<<<"f", "n">>, <<"(">>, <<"x">>, <<")">>, <<"{">>, <<"x">>>>}

\* the words of expressions with prefix operators, calls and grouping
ExprWords == {<<"a">>, <<"-">>, <<"!">>, <<"*">>, <<"(">>, <<")">>}

\* the openings of a block: a function body, a consequence, an alternative
BlockOpenings ==
    {<<<<"f", "n">>, <<"(">>, <<")">>, <<"{">>>>,
     <<<<"i", "f">>, <<"(">>, <<"a">>, <<")">>, <<"{">>>>,
     <<<<"i", "f">>, <<"(">>, <<"a">>, <<")">>, <<"{">>, <<"}">>,
       <<"e", "l", "s", "e">>, <<"{">>>>}

BlockWords ==
    {<<"a">>, <<"5">>, <<"+">>, <<";">>, <<"}">>, <<"{">>, <<"l", "e", "t">>,
     <<"=">>, <<"r", "e", "t", "u", "r", "n">>, <<"@">>}

\* a block opening and what follows it
Blocks ==
    {opening \o body : opening \in BlockOpenings,
                       body \in SeqsUpTo(BlockWords, MaxBodyLen)}

\* well-formed statements
GoodStatements ==
    {<<<<"l", "e", "t">>, <<"b">>, <<"=">>, <<"7">>, <<";">>>>,
     <<<<"r", "e", "t", "u", "r", "n">>, <<"b">>, <<";">>>>,
     <<<<"b">>, <<"*">>, <<"7">>>>}

\* some words, with or without a block opening before them, a semicolon, a
\* well-formed statement
ThenGood ==
    {e \o <<<<";">>>> \o w :
        e \in SeqsUpTo(GeneralWords, MaxErrLen)
               \cup {opening \o body : opening \in BlockOpenings,
                                       body \in SeqsUpTo(BlockWords, MaxErrLen)},
        w \in GoodStatements}

\* integer literals, with and without leading zeros
IntegerLiterals ==
    {<<digits>> : digits \in SeqsUpTo({"0", "1", "7", "8"}, MaxDigits) \ {<<>>}}

\* texts without spaces over a letter, the characters of = == != and the
\* byte 0
RawTexts ==
    {<<text>> : text \in SeqsUpTo({"a", "=", "!", NUL}, MaxRawLen) \ {<<>>}}

\* what stands between the parentheses of a function literal: names, commas,
\* an integer, the illegal character, an operator, a keyword
ParamWords ==
    {<<"a">>, <<"b">>, <<",">>, <<"5">>, <<"@">>, <<"+">>, <<"l", "e", "t">>}

\* fn ( ... ) { } and the same cut off before the closing parenthesis
ParameterLists ==
    {<<<<"f", "n">>, <<"(">>>> \o params \o rest :
        params \in SeqsUpTo(ParamWords, MaxParams),
        rest \in {<<>>, <<<<")">>, <<"{">>, <<"}">>>>}}

\* expressions that parse without a diagnostic
StatementExprs ==
    {<<<<"5">>>>,
     <<<<"a">>, <<"+">>, <<"b">>>>,
     <<<<"f">>, <<"(">>, <<"a">>, <<")">>>>,
     <<<<"i", "f">>, <<"(">>, <<"a">>, <<")">>, <<"{">>, <<"b">>, <<"}">>>>}

\* let x = E, return E and E, each with and without its semicolon
SimpleStatements ==
    {start \o e \o semicolon :
        start \in {<<<<"l", "e", "t">>, <<"x">>, <<"=">>>>,
                   <<<<"r", "e", "t", "u", "r", "n">>>>, <<>>},
        e \in StatementExprs,
        semicolon \in {<<>>, <<<<";">>>>}}

RECURSIVE Flatten(_)
Flatten(seqs) == IF seqs = <<>> THEN <<>> ELSE Head(seqs) \o Flatten(Tail(seqs))

\* up to MaxStatements statements, one after the other
StatementSeqs ==
    {Flatten(statements) : statements \in SeqsUpTo(SimpleStatements, MaxStatements)}

\* a parenthesised expression as the left and as the right operand of a
\* binary operator and as the operand of a prefix operator, closed by `)`,
\* by nothing or by a semicolon
Groupings ==
    UNION {{<<<<"(">>, <<"a">>, op1, <<"b">>>> \o close \o <<op2, <<"c">>>>,
            <<<<"a">>, op1, <<"(">>, <<"b">>, op2, <<"c">>>> \o close} :
              op1 \in BinaryOperators, op2 \in BinaryOperators,
              close \in {<<<<")">>>>, <<>>, <<<<";">>>>}}
    \cup {<<prefix, <<"(">>, <<"a">>, op, <<"b">>>> \o close :
              prefix \in {<<"-">>, <<"!">>}, op \in BinaryOperators,
              close \in {<<<<")">>>>, <<>>, <<<<";">>>>}}

\* the statements of a block, as words
IfBodies ==
    {<<>>,
     <<<<"x">>>>,
     <<<<"x">>, <<";">>, <<"y">>>>,
     <<<<"l", "e", "t">>, <<"x">>, <<"=">>, <<"5">>, <<";">>,
       <<"r", "e", "t", "u", "r", "n">>, <<"x">>, <<";">>>>,
     <<<<"x">>, <<"y">>>>}

\* what follows the consequence: nothing, an else with its block, an else
\* without the opening brace
IfTails ==
    {<<>>}
    \cup {<<<<"e", "l", "s", "e">>, <<"{">>>> \o body \o <<<<"}">>>> :
              body \in IfBodies}
    \cup {<<<<"e", "l", "s", "e">>>> \o rest :
              rest \in {<<>>, <<<<"x">>>>, <<<<"(">>, <<"x">>, <<")">>>>,
                        <<<<";">>>>, <<<<"}">>>>}}

\* if ( C ) { A } and what follows
IfInputs ==
    {<<<<"i", "f">>, <<"(">>>> \o condition \o <<<<")">>, <<"{">>>> \o body
        \o <<<<"}">>>> \o tail :
        condition \in {<<<<"a">>>>, <<<<"a">>, <<"+">>, <<"b">>>>, <<<<"5">>>>},
        body \in IfBodies,
        tail \in IfTails}

\* the arguments of a call
ArgExprs ==
    {<<<<"1">>>>, <<<<"a">>>>, <<<<"2">>, <<"*">>, <<"3">>>>,
     <<<<"4">>, <<"+">>, <<"5">>>>}

\* e1 , e2 , ... , en
RECURSIVE CommaSeparated(_)
CommaSeparated(exprs) ==
    IF exprs = <<>> THEN <<>>
    ELSE IF Len(exprs) = 1 THEN exprs[1]
    ELSE exprs[1] \o <<<<",">>>> \o CommaSeparated(Tail(exprs))

\* add ( e1 , ... , en ) and the same without the closing parenthesis
CallInputs ==
    {<<<<"a", "d", "d">>, <<"(">>>> \o CommaSeparated(args) \o close :
        args \in SeqsUpTo(ArgExprs, MaxArgs),
        close \in {<<<<")">>>>, <<>>}}

\* function literals whose parameter list holds a parenthesis where a name
\* is read, alone and as an operand
ParenthesisParameters ==
    {<<<<"f", "n">>, <<"(">>, <<"(">>, <<")">>, <<"{">>, <<"}">>>>,
     <<<<"f", "n">>, <<"(">>, <<"a">>, <<",">>, <<")">>, <<")">>, <<"{">>, <<"}">>>>,
     <<<<"f", "n">>, <<"(">>, <<"a">>, <<",">>, <<"(">>, <<")">>, <<"{">>, <<"-">>,
       <<"a">>, <<"}">>>>,
     <<<<"-">>, <<"f", "n">>, <<"(">>, <<"(">>, <<")">>, <<"{">>, <<"}">>, <<"+">>,
       <<"a">>>>}

\* pieces of text for the lexer: keywords, names that extend or recase
\* them, the underscore, operators, white space other than the space, a
\* digit, the illegal character
LexWords ==
    {<<"l", "e", "t">>, <<"x">>, <<"f", "n">>, <<"_">>, <<"L", "e", "t">>,
     <<"=">>, <<"!">>, <<"-">>, <<"/">>, <<"<">>, <<">">>, <<"\t">>,
     <<"\n", "\r">>, <<"5">>, <<"@">>, <<"{">>}

\* every character that is a token by itself, in one text
AllSingleCharacters ==
    <<"=", "+", "-", "*", "/", "<", ">", "!", ",", ";", "(", ")", "{", "}">>

\* two pieces with a space between them and with none, and the single
\* characters, spaced and unspaced
LexTexts ==
    {<<a, b>> : a \in LexWords, b \in LexWords}
    \cup {<<a \o b>> : a \in LexWords, b \in LexWords}
    \cup {[i \in DOMAIN AllSingleCharacters |-> <<AllSingleCharacters[i]>>],
          <<AllSingleCharacters>>,
          <<<<"l", "e", "t">>, <<"l", "e", "t", "x">>, <<"L", "e", "t">>,
            <<"f", "n", "_">>, <<"f", "n">>>>,
          <<<<"\t", "l", "e", "t", "\t", "x", "\n", "=", "=", "\r">>,
            <<"5", "0", "@", "\r", "\n">>>>}

\* 2^63 in decimal digits
TwoTo63 ==
    <<"9", "2", "2", "3", "3", "7", "2", "0", "3", "6", "8", "5", "4", "7", "7",
      "5", "8", "0", "8">>

\* 2^63 and a literal of twenty digits
LargeLiterals ==
    {TwoTo63,
     <<"9", "9", "9", "9", "9", "9", "9", "9", "9", "9", "9", "9", "9", "9", "9",
       "9", "9", "9", "9", "9">>}

\* a large literal as a statement, a value or an operand, and what follows
LargeIntegers ==
    {start \o <<literal>> \o rest :
        start \in {<<>>, <<<<"l", "e", "t">>, <<"x">>, <<"=">>>>,
                   <<<<"r", "e", "t", "u", "r", "n">>>>, <<<<"-">>>>},
        literal \in LargeLiterals,
        rest \in {<<>>, <<<<";">>>>, <<<<"+">>, <<"1">>>>, <<<<"b">>>>,
                  <<<<";">>, <<"l", "e", "t">>, <<"b">>, <<"=">>, <<"7">>, <<";">>>>,
                  <<<<"l", "e", "t">>, <<"b">>, <<"=">>, <<"7">>>>,
                  <<<<";">>, TwoTo63>>}}

\* a let statement, a return statement and an expression statement, each
\* followed by up to MaxLen semicolons
RepeatedSemicolons ==
    {start \o semicolons :
        start \in {<<<<"l", "e", "t">>, <<"x">>, <<"=">>, <<"5">>>>,
                   <<<<"r", "e", "t", "u", "r", "n">>, <<"5">>>>,
                   <<<<"5">>>>,
                   <<<<"a">>, <<";">>, <<"r", "e", "t", "u", "r", "n">>, <<"a">>,
                     <<"+">>, <<"b">>>>},
        semicolons \in SeqsUpTo({<<";">>}, MaxLen)}

InputWords ==
    SeqsUpTo(GeneralWords, MaxLen) \cup Chains \cup SeqsUpTo(ExprWords, MaxExprLen)
    \cup Blocks \cup ThenGood \cup IntegerLiterals \cup Examples \cup RawTexts
    \cup ParameterLists \cup StatementSeqs \cup Groupings \cup IfInputs
    \cup CallInputs \cup ParenthesisParameters \cup LexTexts
    \cup LargeIntegers \cup RepeatedSemicolons

Text(words) == Join(words, <<" ">>)

(***************************************************************************)
(* ParseProgram as a state machine: one step per iteration of its loop     *)
(***************************************************************************)
Init ==
    /\ \E words \in InputWords : p = New(NewLexer(Text(words)))
    /\ program = <<>>
    /\ pc = "loop"

\* one iteration: parse a statement, append it unless it is nil, advance
ParseProgramIteration ==
    /\ pc = "loop"
    /\ ~currTokenIs(p, EOF)
    /\ LET r == programIteration(p, program)
       IN  p' = r.p /\ program' = r.v
    /\ pc' = pc

\* the loop ends and ParseProgram returns the program
ParseProgramReturn ==
    /\ pc = "loop"
    /\ currTokenIs(p, EOF)
    /\ pc' = "done"
    /\ UNCHANGED <<p, program>>

Next == ParseProgramIteration \/ ParseProgramReturn

Spec == Init /\ [][Next]_vars


(***************************************************************************)
(* The reference grammar of expressions, by precedence level                *)
(*                                                                         *)
(*   level k  ::=  level k+1 { operator of level k   level k+1 }           *)
(*   unary    ::=  ("-" | "!") unary  |  postfix                           *)
(*   postfix  ::=  primary { "(" [ expression { "," expression } ] ")" }   *)
(*   primary  ::=  NAME | INT | TRUE | FALSE | "(" expression ")"          *)
(*                                                                         *)
(* A reference tree is an operand token or an operator applied to trees.   *)
(* A rule returns [ok, v, i]: the tree and the index of the next token.    *)
(***************************************************************************)
RefLevels == <<{EQ, NEQ}, {LT, GT}, {PLUS, MINUS}, {STAR, SLASH}>>

OperandTypes == {NAME, INT, TRUE_, FALSE_}

RefFail == [ok |-> FALSE, v |-> <<>>, i |-> 0]

RefOk(v, i) == [ok |-> TRUE, v |-> v, i |-> i]

TypeAt(ts, i) == IF i <= Len(ts) THEN ts[i].Type ELSE EOF

RECURSIVE RefLevel(_, _, _)
RECURSIVE RefLevelRest(_, _, _, _)
RECURSIVE RefUnary(_, _)
RECURSIVE RefCalls(_, _, _)
RECURSIVE RefArgs(_, _, _)
RECURSIVE RefPrimary(_, _)

RefLevel(ts, i, k) ==
    IF k > Len(RefLevels) THEN RefUnary(ts, i)
    ELSE LET left == RefLevel(ts, i, k + 1)
         IN  IF ~left.ok THEN RefFail ELSE RefLevelRest(ts, left.i, k, left.v)

RefLevelRest(ts, i, k, left) ==
    IF TypeAt(ts, i) \in RefLevels[k]
    THEN LET right == RefLevel(ts, i + 1, k + 1)
         IN  IF ~right.ok THEN RefFail
             ELSE RefLevelRest(ts, right.i, k,
                      [ref |-> "infix", tok |-> ts[i], left |-> left,
                       right |-> right.v])
    ELSE RefOk(left, i)

RefUnary(ts, i) ==
    IF TypeAt(ts, i) \in {MINUS, BANG}
    THEN LET right == RefUnary(ts, i + 1)
         IN  IF ~right.ok THEN RefFail
             ELSE RefOk([ref |-> "prefix", tok |-> ts[i], right |-> right.v], right.i)
    ELSE LET prim == RefPrimary(ts, i)
         IN  IF ~prim.ok THEN RefFail ELSE RefCalls(ts, prim.i, prim.v)

RefCalls(ts, i, fn) ==
    IF TypeAt(ts, i) = LPAREN
    THEN LET args == IF TypeAt(ts, i + 1) = RPAREN THEN RefOk(<<>>, i + 2)
                     ELSE RefArgs(ts, i + 1, <<>>)
         IN  IF ~args.ok THEN RefFail
             ELSE RefCalls(ts, args.i,
                      [ref |-> "call", tok |-> ts[i], fn |-> fn, args |-> args.v])
    ELSE RefOk(fn, i)

RefArgs(ts, i, args) ==
    LET e == RefLevel(ts, i, 1)
    IN  IF ~e.ok THEN RefFail
        ELSE IF TypeAt(ts, e.i) = COMMA THEN RefArgs(ts, e.i + 1, Append(args, e.v))
        ELSE IF TypeAt(ts, e.i) = RPAREN THEN RefOk(Append(args, e.v), e.i + 1)
        ELSE RefFail

RefPrimary(ts, i) ==
    IF TypeAt(ts, i) \in OperandTypes
    THEN RefOk([ref |-> "operand", tok |-> ts[i]], i + 1)
    ELSE IF TypeAt(ts, i) = LPAREN
    THEN LET e == RefLevel(ts, i + 1, 1)
         IN  IF e.ok /\ TypeAt(ts, e.i) = RPAREN THEN RefOk(e.v, e.i + 1)
             ELSE RefFail
    ELSE RefFail

\* the tokens are one expression of the grammar, all of them
RefExpression(ts) ==
    LET e == RefLevel(ts, 1, 1)
    IN  IF e.ok /\ e.i = Len(ts) + 1 THEN e ELSE RefFail

\* the full parenthesisation of a reference tree
RECURSIVE RefString(_)
RECURSIVE RefStringEach(_)
RefStringEach(refs) ==
    IF refs = <<>> THEN <<>> ELSE <<RefString(refs[1])>> \o RefStringEach(Tail(refs))

RefString(r) ==
    CASE r.ref = "operand" -> r.tok.Literal
      [] r.ref = "prefix" -> <<"(">> \o r.tok.Literal \o RefString(r.right) \o <<")">>
      [] r.ref = "infix" ->
            <<"(">> \o RefString(r.left) \o <<" ">> \o r.tok.Literal \o <<" ">>
            \o RefString(r.right) \o <<")">>
      [] r.ref = "call" ->
            RefString(r.fn) \o <<"(">> \o Join(RefStringEach(r.args), <<",", " ">>)
            \o <<")">>

\* the node of an operand token: an integer literal whose conversion fails
\* has none
OperandNode(tok) ==
    CASE tok.Type = NAME -> Identifier(tok, tok.Literal)
      [] tok.Type = INT ->
            IF ParseInt(tok.Literal).ok
            THEN IntegerLiteral(tok, ParseInt(tok.Literal).value)
            ELSE Nil
      [] OTHER -> BoolLiteral(tok, tok.Type = TRUE_)

\* the AST of a reference tree
RECURSIVE RefNode(_)
RECURSIVE RefNodeEach(_)
RefNodeEach(refs) ==
    IF refs = <<>> THEN <<>> ELSE <<RefNode(refs[1])>> \o RefNodeEach(Tail(refs))

RefNode(r) ==
    CASE r.ref = "operand" -> OperandNode(r.tok)
      [] r.ref = "prefix" -> PrefixExpression(r.tok, r.tok.Literal, RefNode(r.right))
      [] r.ref = "infix" ->
            InfixExpression(r.tok, RefNode(r.left), r.tok.Literal, RefNode(r.right))
      [] r.ref = "call" ->
            CallExpression(r.tok, RefNode(r.fn), Slice(RefNodeEach(r.args)))

\* operands joined by binary operators: x0 op1 x1 ... opk xk
IsChain(ts) ==
    /\ Len(ts) % 2 = 1
    /\ \A i \in 1..Len(ts) :
          IF i % 2 = 1 THEN ts[i].Type \in OperandTypes
          ELSE \E k \in 1..Len(RefLevels) : ts[i].Type \in RefLevels[k]

\* the level of a binary operator in the reference grammar
LevelOf(type) == CHOOSE k \in 1..Len(RefLevels) : type \in RefLevels[k]

\* the operators of a chain
ChainOperators(ts) == [j \in 1..(Len(ts) \div 2) |-> ts[2 * j]]

(***************************************************************************)
(* Properties                                                              *)
(***************************************************************************)
InputTokens == Tokens(p.l.input)

Done == pc = "done"

\* C1: for every sequence of operands (names, integer and boolean
\* literals) joined by the binary operators, the parse records no
\* diagnostic and yields the one expression that the reference precedence
\* grammar yields, with the same rendering.
C1_BinaryPrecedence ==
    Done =>
        LET ts == InputTokens
        IN  IsChain(ts) =>
                LET ref == RefExpression(ts).v
                IN  /\ p.errors = <<>>
                    /\ program = <<ExpressionStatement(ts[1], RefNode(ref))>>
                    /\ ProgramString(program) = RefString(ref)

\* the left-leaning tree ((x0 op1 x1) op2 x2) ... of a chain
RECURSIVE LeftFold(_)
LeftFold(ts) ==
    IF Len(ts) = 1 THEN OperandNode(ts[1])
    ELSE InfixExpression(ts[Len(ts) - 1], LeftFold(SubSeq(ts, 1, Len(ts) - 2)),
                         ts[Len(ts) - 1].Literal, OperandNode(ts[Len(ts)]))

\* the binary operators of a chain are all on one precedence level
OneLevel(ts) ==
    \A i, j \in 1..(Len(ts) \div 2) : LevelOf(ts[2 * i].Type) = LevelOf(ts[2 * j].Type)

\* C2: a chain x0 op1 x1 op2 x2 ... whose binary operators are all on one
\* precedence level parses to the left-leaning tree ((x0 op1 x1) op2 x2) ...
C2_LeftAssociativity ==
    Done =>
        LET ts == InputTokens
        IN  (IsChain(ts) /\ OneLevel(ts)) =>
                program = <<ExpressionStatement(ts[1], LeftFold(ts))>>

\* a chain of three operators of one level, two of them different, parsed
C2_Witness ==
    /\ Done
    /\ LET ts == InputTokens
       IN  /\ IsChain(ts) /\ OneLevel(ts) /\ Len(ts) = 7
           /\ ts[2].Type # ts[4].Type
           /\ program = <<ExpressionStatement(ts[1], LeftFold(ts))>>

\* a reference tree applies a prefix operator or a call somewhere
RECURSIVE HasPrefixOrCall(_)
HasPrefixOrCall(r) ==
    CASE r.ref = "operand" -> FALSE
      [] r.ref = "prefix" -> TRUE
      [] r.ref = "call" -> TRUE
      [] r.ref = "infix" -> HasPrefixOrCall(r.left) \/ HasPrefixOrCall(r.right)

\* C3: an input that is one expression of the reference grammar, in which
\* a prefix operator binds tighter than every binary operator and looser
\* than a call, and a call binds to the expression directly on its left,
\* parses to the tree of the grammar.
C3_PrefixAndCallBinding ==
    Done =>
        LET ts == InputTokens
            ref == RefExpression(ts)
        IN  (ref.ok /\ HasPrefixOrCall(ref.v)) =>
                program = <<ExpressionStatement(ts[1], RefNode(ref.v))>>

\* a prefix operator applied to a call was parsed: - a ( a )
C3_Witness ==
    /\ Done
    /\ p.errors = <<>>
    /\ Len(program) = 1
    /\ program[1].kind = "ExpressionStatement"
    /\ program[1].Expression.kind = "PrefixExpression"
    /\ program[1].Expression.Right.kind = "CallExpression"
    /\ program[1].Expression.Right.Arguments.elems # <<>>

\* every iteration of a block loop so far moved the lexer forward
BlockLoopsProgress(q) ==
    \A i \in 1..Len(q.log) :
        q.log[i].event = "blockIteration" => q.log[i].after > q.log[i].before

\* C4: ParseProgram terminates on every input: every iteration of its loop
\* and of the block loop moves the lexer forward by at least one token, the
\* lexer never runs further than the nesting allows, and the only other step
\* is the return, taken only with currToken at EOF.
C4_TerminationAndProgress ==
    [][/\ pc = "loop"
       /\ pc' = "loop" => p'.l.nextPosition > p.l.nextPosition
       /\ pc' = "done" => currTokenIs(p', EOF)
       /\ p'.l.nextPosition <= 2 * Len(p'.l.input) + 3
       /\ BlockLoopsProgress(p')]_vars

\* an ill-formed input with a block loop that iterated was parsed to the end
C4_Witness ==
    /\ Done
    /\ p.errors # <<>>
    /\ \E i \in 1..Len(p.log) : p.log[i].event = "blockIteration"

\* the text after which the input ends with a semicolon and the statement w
BeforeGood(input, w) ==
    LET tail == Text(<<<<";">>>> \o w)
    IN  SubSeq(input, 1, Len(input) - Len(tail))

EndsWithGood(input, w) ==
    LET tail == Text(<<<<";">>>> \o w)
    IN  /\ Len(input) >= Len(tail)
        /\ SubSeq(input, Len(input) - Len(tail) + 1, Len(input)) = tail

\* the parse ended inside a block: a block loop stopped at EOF
BlockLeftOpen(q) ==
    \E i \in 1..Len(q.log) : q.log[i].event = "blockEnd" /\ q.log[i].at = EOF

TwoErrorsExample == Text(<<<<"l", "e", "t">>, <<"=">>, <<"5">>, <<";">>,
                          <<"l", "e", "t">>, <<"y">>, <<"1", "0">>, <<";">>>>)

\* C5: a recorded diagnostic does not stop ParseProgram: `let = 5; let y 10;`
\* leaves at least two diagnostics, and a well-formed statement that follows
\* an erroneous text closed by a semicolon (no block left open) is parsed
\* and appended to Program.Statements, the diagnostics of the text kept.
C5_ErrorAccumulation ==
    Done =>
        /\ p.l.input = TwoErrorsExample => Len(p.errors) >= 2
        /\ \A w \in GoodStatements :
              EndsWithGood(p.l.input, w) =>
                 LET e == ParseProgram(BeforeGood(p.l.input, w) \o <<";">>)
                     g == ParseProgram(Text(w))
                 IN  e.p.errors # <<>> /\ ~BlockLeftOpen(e.p) =>
                        /\ Len(p.errors) >= Len(e.p.errors)
                        /\ program = e.v \o g.v
                        /\ Len(g.v) = 1 /\ g.v[1].kind # "nil"

\* two diagnostics were recorded and a let statement after them was appended
C5_Witness ==
    /\ Done
    /\ Len(p.errors) >= 2
    /\ \E w \in GoodStatements :
          /\ EndsWithGood(p.l.input, w)
          /\ ~BlockLeftOpen(ParseProgram(BeforeGood(p.l.input, w) \o <<";">>).p)
    /\ Len(program) >= 1
    /\ program[Len(program)].kind = "LetStatement"
    /\ program[Len(program)].Value # Nil

\* C6: Program.Statements contains only non-absent statements: an iteration
\* whose statement rule yields an absent result appends nothing.
C6_AbsentStatementsSkipped ==
    \A i \in 1..Len(program) : program[i].kind # "nil"

\* the required children of the node n that are absent
AbsentChildren(n) ==
    CASE n.kind = "ExpressionStatement" ->
            IF n.Expression = Nil THEN {"ExpressionStatement.Expression"} ELSE {}
      [] n.kind = "LetStatement" ->
            (IF n.Name = Nil THEN {"LetStatement.Name"} ELSE {})
            \cup (IF n.Value = Nil THEN {"LetStatement.Value"} ELSE {})
      [] n.kind = "ReturnStatement" ->
            IF n.ReturnValue = Nil THEN {"ReturnStatement.ReturnValue"} ELSE {}
      [] n.kind = "PrefixExpression" ->
            IF n.Right = Nil THEN {"PrefixExpression.Right"} ELSE {}
      [] n.kind = "InfixExpression" ->
            (IF n.Left = Nil THEN {"InfixExpression.Left"} ELSE {})
            \cup (IF n.Right = Nil THEN {"InfixExpression.Right"} ELSE {})
      [] n.kind = "IfExpression" ->
            (IF n.Condition = Nil THEN {"IfExpression.Condition"} ELSE {})
            \cup (IF n.Consequence = Nil THEN {"IfExpression.Consequence"} ELSE {})
      [] n.kind = "FunctionLiteral" ->
            (IF n.Parameters.isNil THEN {"FunctionLiteral.Parameters"} ELSE {})
            \cup (IF n.Body = Nil THEN {"FunctionLiteral.Body"} ELSE {})
      [] n.kind = "CallExpression" ->
            (IF n.Function = Nil THEN {"CallExpression.Function"} ELSE {})
            \cup (IF n.Arguments.isNil THEN {"CallExpression.Arguments"} ELSE {})
            \cup (IF \E i \in 1..Len(n.Arguments.elems) : n.Arguments.elems[i] = Nil
                  THEN {"CallExpression.Arguments[i]"} ELSE {})
      [] OTHER -> {}

\* the nodes directly below the node n
Children(n) ==
    CASE n.kind = "ExpressionStatement" -> <<n.Expression>>
      [] n.kind = "LetStatement" -> <<n.Name, n.Value>>
      [] n.kind = "ReturnStatement" -> <<n.ReturnValue>>
      [] n.kind = "PrefixExpression" -> <<n.Right>>
      [] n.kind = "InfixExpression" -> <<n.Left, n.Right>>
      [] n.kind = "IfExpression" -> <<n.Condition, n.Consequence, n.Alternative>>
      [] n.kind = "FunctionLiteral" -> n.Parameters.elems \o <<n.Body>>
      [] n.kind = "CallExpression" -> <<n.Function>> \o n.Arguments.elems
      [] n.kind = "BlockStatement" -> n.Statements
      [] OTHER -> <<>>

\* the absent required children anywhere in the tree of n
RECURSIVE Absences(_)
Absences(n) ==
    LET below == Children(n)
    IN  AbsentChildren(n) \cup UNION {Absences(below[i]) : i \in 1..Len(below)}

ProgramAbsences(statements) ==
    UNION {Absences(statements[i]) : i \in 1..Len(statements)}

\* what a rule must not build on: an absent operand, value, parameter list
\* or argument list
BuiltOnAbsent ==
    {"ExpressionStatement.Expression", "LetStatement.Value",
     "ReturnStatement.ReturnValue", "PrefixExpression.Right",
     "InfixExpression.Left", "InfixExpression.Right",
     "FunctionLiteral.Parameters", "CallExpression.Function",
     "CallExpression.Arguments"}

\* C7: absence propagates upward: the program holds no PrefixExpression,
\* InfixExpression, CallExpression, FunctionLiteral, LetStatement,
\* ReturnStatement or ExpressionStatement built on an absent operand, value,
\* parameter list or argument list.
C7_AbsencePropagates ==
    ProgramAbsences(program) \cap BuiltOnAbsent = {}

\* C8: when ParseProgram returns with no diagnostic, every required child of
\* every node of the program is present.
C8_NoAbsentChildWithoutDiagnostic ==
    Done /\ p.errors = <<>> => ProgramAbsences(program) = {}

\* the nodes of kind k in the tree of n
RECURSIVE HasKind(_, _)
HasKind(n, k) ==
    \/ n.kind = k
    \/ LET below == Children(n)
       IN  \E i \in 1..Len(below) : HasKind(below[i], k)

\* a parse without diagnostics returned an if/else, a function literal with
\* a parameter, a call with an argument or a let statement
C8_Witness ==
    /\ Done
    /\ p.errors = <<>>
    /\ \E i \in 1..Len(program) :
          \/ HasKind(program[i], "IfExpression") /\ HasKind(program[i], "InfixExpression")
          \/ HasKind(program[i], "FunctionLiteral") /\ HasKind(program[i], "CallExpression")

\* the node n without the tokens it was built from: kinds, operators, names,
\* literal values and children in order
RECURSIVE Shape(_)
Shape(n) ==
    LET EachShape(nodes) == [i \in 1..Len(nodes) |-> Shape(nodes[i])]
    IN  CASE n.kind = "Identifier" -> <<"Identifier", n.Value>>
          [] n.kind = "IntegerLiteral" -> <<"IntegerLiteral", n.Value>>
          [] n.kind = "BoolLiteral" -> <<"BoolLiteral", n.Value>>
          [] n.kind = "PrefixExpression" ->
                <<"PrefixExpression", n.Operator, Shape(n.Right)>>
          [] n.kind = "InfixExpression" ->
                <<"InfixExpression", Shape(n.Left), n.Operator, Shape(n.Right)>>
          [] n.kind = "IfExpression" ->
                <<"IfExpression", Shape(n.Condition), Shape(n.Consequence),
                  Shape(n.Alternative)>>
          [] n.kind = "FunctionLiteral" ->
                <<"FunctionLiteral", n.Parameters.isNil,
                  EachShape(n.Parameters.elems), Shape(n.Body)>>
          [] n.kind = "CallExpression" ->
                <<"CallExpression", Shape(n.Function), n.Arguments.isNil,
                  EachShape(n.Arguments.elems)>>
          [] n.kind = "BlockStatement" ->
                <<"BlockStatement", EachShape(n.Statements)>>
          [] n.kind = "LetStatement" ->
                <<"LetStatement", Shape(n.Name), Shape(n.Value)>>
          [] n.kind = "ReturnStatement" ->
                <<"ReturnStatement", Shape(n.ReturnValue)>>
          [] n.kind = "ExpressionStatement" ->
                <<"ExpressionStatement", Shape(n.Expression)>>
          [] OTHER -> <<"nil", n.type>>

ProgramShape(statements) == [i \in 1..Len(statements) |-> Shape(statements[i])]

\* C9: when a text is parsed with no diagnostic, parsing the rendering
\* Program.String() of the result records no diagnostic and yields a
\* structurally identical program.
C9_RoundTrip ==
    Done /\ p.errors = <<>> =>
        LET again == ParseProgram(ProgramString(program))
        IN  /\ again.p.errors = <<>>
            /\ ProgramShape(again.v) = ProgramShape(program)

\* the input is one run of decimal digits
IsDigits(input) ==
    /\ input # <<>>
    /\ \A i \in 1..Len(input) : isDigit(input[i])

\* C10: an integer literal of decimal digits, leading zeros included, is
\* parsed without a diagnostic into an IntegerLiteral whose Value is the
\* base-10 value of the digits.
C10_IntegerLiteralsAreDecimal ==
    Done /\ IsDigits(p.l.input) =>
        /\ p.errors = <<>>
        /\ Len(program) = 1
        /\ program[1].kind = "ExpressionStatement"
        /\ program[1].Expression.kind = "IntegerLiteral"
        /\ program[1].Expression.Value = digitsValue(p.l.input, 10)

(***************************************************************************)
(* The lexer's calls, one by one                                           *)
(***************************************************************************)
\* the character at a position of the input (from 0), NUL outside it
charAt(input, position) ==
    IF position >= 0 /\ position < Len(input) THEN input[position + 1] ELSE NUL

\* successive calls of NextToken, n of them at the end of the input: the
\* token of each call and the position at which it starts
RECURSIVE lexCalls(_, _)
RECURSIVE lexCalls_Next(_, _, _)
lexCalls(l, n) ==
    IF n = 0 THEN <<>> ELSE lexCalls_Next(skipWhitespace(l), NextToken(l), n)

\* l is the lexer after skipWhitespace, r what the call returns
lexCalls_Next(l, r, n) ==
    <<[at |-> l.currPosition, tok |-> r.tok]>>
    \o lexCalls(r.l, IF l.currPosition >= Len(l.input) THEN n - 1 ELSE n)

\* the input holds the character
InputHas(ch) == \E i \in DOMAIN p.l.input : p.l.input[i] = ch

\* the calls the parser can make on its input, and one more
InputCalls == lexCalls(NewLexer(p.l.input), CallsAtEnd)

EndOfInputAbsorbing(calls) ==
    \A i \in DOMAIN calls :
        calls[i].tok.Type = EOF
            => \A j \in (i + 1)..Len(calls) : calls[j].tok = Token(EOF, <<>>)

\* C12: once a call of NextToken has returned an EOF token, every later call
\* returns an EOF token with an empty literal, whatever bytes the input
\* holds, the byte 0 included.
C12_EndOfInputAbsorbing == EndOfInputAbsorbing(InputCalls)

\* C13: when the tokens delivered to the parser hold an ILLEGAL token before
\* EOF, in whatever position, the returned parse has at least one
\* diagnostic.
C13_IllegalTokenDiagnosed ==
    (Done /\ \E i \in DOMAIN InputTokens : InputTokens[i].Type = ILLEGAL)
        => p.errors # <<>>

\* the input is fn ( ... ) { } with no parenthesis or brace between the
\* parentheses
IsParameterListInput ==
    LET n == Len(InputTokens)
    IN  /\ n >= 5
        /\ InputTokens[1].Type = FUNCTION
        /\ InputTokens[2].Type = LPAREN
        /\ InputTokens[n - 2].Type = RPAREN
        /\ InputTokens[n - 1].Type = LBRACE
        /\ InputTokens[n].Type = RBRACE
        /\ \A i \in 3..(n - 3) :
               InputTokens[i].Type \notin {LPAREN, RPAREN, LBRACE, RBRACE}

\* the tokens between the parentheses
ParameterTokens == SubSeq(InputTokens, 3, Len(InputTokens) - 3)

\* [NAME {, NAME}]
NamesAndCommas(tokens) ==
    \/ tokens = <<>>
    \/ /\ Len(tokens) % 2 = 1
       /\ \A i \in DOMAIN tokens :
              tokens[i].Type = (IF i % 2 = 1 THEN NAME ELSE COMMA)

\* C14: on fn ( ... ) { }, when the tokens between the parentheses are n >= 0
\* names separated by commas the function literal has the n names as its
\* parameters, in source order, and no diagnostic is recorded; otherwise (a
\* position holds something that is not a name, or a comma is followed by
\* the closing parenthesis) a diagnostic is recorded.
C14_ParameterLists ==
    (Done /\ IsParameterListInput)
        => IF NamesAndCommas(ParameterTokens)
           THEN /\ p.errors = <<>>
                /\ Len(program) = 1
                /\ program[1].kind = "ExpressionStatement"
                /\ program[1].Expression.kind = "FunctionLiteral"
                /\ ~program[1].Expression.Parameters.isNil
                /\ LET parameters == program[1].Expression.Parameters.elems
                   IN  /\ Len(parameters) = (Len(ParameterTokens) + 1) \div 2
                       /\ \A i \in DOMAIN parameters :
                              /\ parameters[i].kind = "Identifier"
                              /\ parameters[i].Token = ParameterTokens[2 * i - 1]
                              /\ parameters[i].Value =
                                     ParameterTokens[2 * i - 1].Literal
           ELSE p.errors # <<>>

\* the input without its last character
InputWithoutLast == SubSeq(p.l.input, 1, Len(p.l.input) - 1)

\* the input is a text S followed by one semicolon and its parse has
\* recorded no diagnostic
TerminatedInput ==
    /\ Done
    /\ p.errors = <<>>
    /\ p.l.input # <<>>
    /\ p.l.input[Len(p.l.input)] = ";"

\* r is the parse of S alone: when it is one statement, it has no
\* diagnostic either and it is the statement of the parse with the semicolon
SameWithoutTerminator(r) ==
    Len(r.v) = 1
        => /\ r.p.errors = <<>>
           /\ r.v = program
           /\ Len(program) = 1

\* C15: when S followed by ; parses with no diagnostic, S alone, a single
\* statement, parses with no diagnostic too and both parses hold the same
\* one statement: the semicolon is consumed with S and starts no statement.
C15_OptionalTerminator ==
    TerminatedInput => SameWithoutTerminator(ParseProgram(InputWithoutLast))

\* a let statement whose value ends with a block has been parsed with its
\* semicolon
C15_Witness ==
    /\ TerminatedInput
    /\ Len(ParseProgram(InputWithoutLast).v) = 1
    /\ program[1].kind = "LetStatement"
    /\ program[1].Value.kind = "IfExpression"

\* no parenthesis of the tokens opens a call: each ( is the first token or
\* follows an operator or another (
NoCalls(ts) ==
    \A i \in DOMAIN ts :
        (ts[i].Type = LPAREN /\ i > 1)
            => ts[i - 1].Type \notin OperandTypes \cup {RPAREN, RBRACE}

HasGroup(ts) == \E i \in DOMAIN ts : ts[i].Type = LPAREN

\* every integer literal among the tokens converts
IntegersConvert(ts) ==
    \A i \in DOMAIN ts : ts[i].Type = INT => ParseInt(ts[i].Literal).ok

\* what parseGroupedExpression owes, given what parseExpression(LOWEST)
\* returns for the tokens after the (: that expression when ) follows it,
\* and otherwise absent and exactly one diagnostic more
GroupedAsInner(g, inner) ==
    IF nextTokenIs(inner.p, RPAREN)
    THEN g = R(advance(inner.p), inner.v)
    ELSE /\ g.v = Nil
         /\ g.p.l = inner.p.l
         /\ Len(g.p.errors) = Len(inner.p.errors) + 1

\* the parse is the tree of the reference grammar, and so is its rendering
ParsedAsReference(ts, ref) ==
    /\ program = <<ExpressionStatement(ts[1], RefNode(ref))>>
    /\ p.errors = <<>> => ProgramString(program) = RefString(ref)

\* the tokens are an expression with a group, and no call
GroupedParsedAsReference(ts) ==
    (HasGroup(ts) /\ NoCalls(ts) /\ RefExpression(ts).ok)
        => ParsedAsReference(ts, RefExpression(ts).v)

\* the tokens lack nothing but the last ) of a group
UnclosedDiagnosedOnce(ts) ==
    (NoCalls(ts) /\ IntegersConvert(ts)
        /\ RefExpression(Append(ts, NewToken(RPAREN, ")"))).ok)
        => /\ Len(p.errors) = 1
           /\ p.errors[1].expected = RPAREN

\* C16: an expression with parenthesised operands parses to the tree of
\* the reference grammar, in which a group is an operand and leaves no node
\* of its own, and renders fully parenthesised:
\* ( a + b ) * c as ((a + b) * c), a / ( b + c ) as (a / (b + c)) and
\* - ( a + b ) as (-(a + b)).  Where a statement starts with (,
\* parseGroupedExpression returns what parseExpression(LOWEST) returns for
\* the tokens after the ( when a ) follows them, and otherwise returns
\* absent and records exactly one diagnostic more; a text that lacks
\* nothing but the last ) of a group leaves exactly one diagnostic.
C16_Grouping ==
    /\ (Done /\ InputHas("("))
        => /\ GroupedParsedAsReference(InputTokens)
           /\ UnclosedDiagnosedOnce(InputTokens)
    /\ (pc = "loop" /\ currTokenIs(p, LPAREN))
        => GroupedAsInner(parseGroupedExpression(p),
                          parseExpression(advance(p), LOWEST))

\* ( a + b ) * c has been parsed and renders as ((a + b) * c)
C16_Witness ==
    /\ Done
    /\ p.errors = <<>>
    /\ HasGroup(InputTokens)
    /\ ProgramString(program)
           = <<"(", "(", "a", " ", "+", " ", "b", ")", " ", "*", " ", "c", ")">>

\* the text of an input from its i-th token to its j-th; calls holds the
\* position at which each token starts
TokenText(input, calls, i, j) ==
    IF i > j THEN <<>> ELSE SubSeq(input, calls[i].at + 1, calls[j + 1].at)

\* the index of the first token of a kind, 0 when there is none
FirstIndex(ts, type) ==
    IF \E i \in DOMAIN ts : ts[i].Type = type
    THEN CHOOSE i \in DOMAIN ts :
             ts[i].Type = type /\ \A j \in 1..(i - 1) : ts[j].Type # type
    ELSE 0

\* the tokens start with if ( C ) { A }, C without parentheses and A
\* without braces: k is the index of the ) that ends the condition, m of the
\* } that ends the consequence
IsIfInput(ts, k, m) ==
    /\ Len(ts) >= 6
    /\ ts[1].Type = IF_
    /\ ts[2].Type = LPAREN
    /\ k > 3
    /\ k < Len(ts)
    /\ ts[k + 1].Type = LBRACE
    /\ FirstIndex(ts, LBRACE) = k + 1
    /\ m > k + 1

\* the tokens after the consequence are else { B }, B without braces
IfHasElseBlock(ts, m) ==
    /\ Len(ts) >= m + 3
    /\ ts[m + 1].Type = ELSE_
    /\ ts[m + 2].Type = LBRACE
    /\ ts[Len(ts)].Type = RBRACE
    /\ \A i \in (m + 3)..(Len(ts) - 1) : ts[i].Type \notin {LBRACE, RBRACE}

\* the tokens after the consequence are an else that no { follows
IfHasBareElse(ts, m) ==
    /\ Len(ts) >= m + 1
    /\ ts[m + 1].Type = ELSE_
    /\ TypeAt(ts, m + 2) # LBRACE

\* the parts of if ( C ) { A } else { B }, each parsed on its own: C as an
\* expression at LOWEST, A and B as sequences of statements
IfParts(input, ts, calls, k, m) ==
    [ts |-> ts, k |-> k, m |-> m,
     condition |-> parseExpression(
                       New(NewLexer(TokenText(input, calls, 3, k - 1))), LOWEST),
     consequence |-> ParseProgram(TokenText(input, calls, k + 2, m - 1)),
     alternative |-> IF IfHasElseBlock(ts, m)
                     THEN ParseProgram(
                              TokenText(input, calls, m + 3, Len(ts) - 1))
                     ELSE ParseProgram(<<>>)]

\* the parts of the input when it starts with if ( C ) { A } and C, one
\* whole expression, and A leave no diagnostic
IfPartsOf(input, ts, calls) ==
    IF IsIfInput(ts, FirstIndex(ts, RPAREN), FirstIndex(ts, RBRACE))
    THEN {parts \in {IfParts(input, ts, calls, FirstIndex(ts, RPAREN),
                             FirstIndex(ts, RBRACE))} :
              /\ parts.condition.p.errors = <<>>
              /\ nextTokenIs(parts.condition.p, EOF)
              /\ parts.consequence.p.errors = <<>>}
    ELSE {}

\* the parts of the current input, none when it is not such an input
InputIfParts ==
    IF Len(p.l.input) >= 2 /\ p.l.input[1] = "i" /\ p.l.input[2] = "f"
    THEN IfPartsOf(p.l.input, InputTokens, InputCalls)
    ELSE {}

\* the IfExpression of the parts, with or without its Alternative
IfOf(parts, withAlternative) ==
    IfExpression(parts.ts[1], parts.condition.v,
        BlockStatement(parts.ts[parts.k + 1], parts.consequence.v),
        IF withAlternative
        THEN BlockStatement(parts.ts[parts.m + 2], parts.alternative.v)
        ELSE Nil)

\* C17: if ( C ) { A } with nothing after it parses, without a diagnostic,
\* to an IfExpression whose Condition is C parsed at LOWEST, whose
\* Consequence holds the statements of A in source order and whose
\* Alternative is absent; followed by else { B } the Alternative holds the
\* statements of B in source order, again without a diagnostic; followed by
\* an else without {, parseIfExpression records a diagnostic, which expects
\* {, and returns absent.
C17_IfExpressionShape ==
    /\ Done =>
        \A parts \in InputIfParts :
            /\ Len(parts.ts) = parts.m
                => /\ p.errors = <<>>
                   /\ program = <<ExpressionStatement(parts.ts[1],
                                      IfOf(parts, FALSE))>>
            /\ (IfHasElseBlock(parts.ts, parts.m)
                    /\ parts.alternative.p.errors = <<>>)
                => /\ p.errors = <<>>
                   /\ program = <<ExpressionStatement(parts.ts[1],
                                      IfOf(parts, TRUE))>>
            /\ IfHasBareElse(parts.ts, parts.m)
                => /\ p.errors # <<>>
                   /\ p.errors[1].expected = LBRACE
    /\ (pc = "loop" /\ program = <<>> /\ currTokenIs(p, IF_)
            /\ p = New(NewLexer(p.l.input)))
        => \A parts \in InputIfParts :
               IfHasBareElse(parts.ts, parts.m)
                   => /\ parseIfExpression(p).v = Nil
                      /\ Len(parseIfExpression(p).p.errors) = 1
                      /\ parseIfExpression(p).p.errors[1].expected = LBRACE

\* an if with an else block has been parsed, two statements in each block
C17_Witness ==
    /\ Done
    /\ \E parts \in InputIfParts :
           /\ IfHasElseBlock(parts.ts, parts.m)
           /\ parts.alternative.p.errors = <<>>
           /\ Len(parts.alternative.v) = 2
           /\ Len(parts.consequence.v) = 2
           /\ parts.consequence.v # parts.alternative.v

\* the tokens from..hi cut at their commas: the pairs <<first, last>> of the
\* pieces; i is the token looked at
RECURSIVE ArgRanges(_, _, _, _)
ArgRanges(ts, from, i, hi) ==
    IF i > hi THEN <<<<from, hi>>>>
    ELSE IF ts[i].Type = COMMA
    THEN <<<<from, i - 1>>>> \o ArgRanges(ts, i + 1, i + 1, hi)
    ELSE ArgRanges(ts, from, i + 1, hi)

\* each piece parsed on its own as an expression at LOWEST
ArgParses(input, calls, ranges) ==
    [i \in DOMAIN ranges |->
        parseExpression(
            New(NewLexer(TokenText(input, calls, ranges[i][1], ranges[i][2]))),
            LOWEST)]

\* each piece is one whole expression and leaves no diagnostic
ArgsClean(parses) ==
    \A i \in DOMAIN parses :
        parses[i].p.errors = <<>> /\ nextTokenIs(parses[i].p, EOF)

\* the tokens are NAME ( ... with no other parenthesis, brace or semicolon,
\* closed by a last ) or not closed at all
IsCallInput(ts) ==
    /\ Len(ts) >= 2
    /\ ts[1].Type = NAME
    /\ ts[2].Type = LPAREN
    /\ \A i \in 3..(Len(ts) - 1) : ts[i].Type \notin {LPAREN, RPAREN}

\* the arguments of the call, each parsed on its own: none for f ( ) and for
\* f (
CallArgs(input, ts, calls, hi) ==
    IF hi < 3 THEN <<>> ELSE ArgParses(input, calls, ArgRanges(ts, 3, 3, hi))

\* f ( e1 , ... , en ): the call holds the n arguments in source order
ClosedCallParsed(ts, args) ==
    ArgsClean(args)
        => /\ p.errors = <<>>
           /\ program = <<ExpressionStatement(ts[1],
                  CallExpression(ts[2], Identifier(ts[1], ts[1].Literal),
                      Slice([i \in DOMAIN args |-> args[i].v])))>>

\* f ( e1 , ... , en and no ): a diagnostic that expects )
UnclosedCallDiagnosed(ts, args) ==
    (Len(ts) > 2 /\ ArgsClean(args))
        => /\ Len(p.errors) = 1
           /\ p.errors[1].expected = RPAREN

CallParsed(input, ts, calls) ==
    IsCallInput(ts)
        => IF ts[Len(ts)].Type = RPAREN /\ Len(ts) > 2
           THEN ClosedCallParsed(ts, CallArgs(input, ts, calls, Len(ts) - 1))
           ELSE UnclosedCallDiagnosed(ts, CallArgs(input, ts, calls, Len(ts)))

\* C18: f ( e1 , ... , en ) with n >= 0 parses to a CallExpression whose
\* Function is the expression left of the ( and whose Arguments are exactly
\* the n expressions in source order, each as parseExpression(LOWEST)
\* returns it on its own, so that add ( 1 , 2 * 3 , 4 + 5 ) has the
\* arguments 1, (2 * 3), (4 + 5); without the closing ) a diagnostic is
\* recorded.
C18_CallArguments ==
    (Done /\ InputHas("(") /\ isLetter(p.l.input[1]))
        => CallParsed(p.l.input, InputTokens, InputCalls)

\* add ( 1 , 2 * 3 , 4 + 5 ) has been parsed
C18_Witness ==
    /\ Done
    /\ p.errors = <<>>
    /\ IsCallInput(InputTokens)
    /\ Len(program) = 1
    /\ program[1].Expression.kind = "CallExpression"
    /\ ~program[1].Expression.Arguments.isNil
    /\ Len(program[1].Expression.Arguments.elems) = 3
    /\ String(program[1].Expression)
           = <<"a", "d", "d", "(", "1", ",", " ", "(", "2", " ", "*", " ", "3",
               ")", ",", " ", "(", "4", " ", "+", " ", "5", ")", ")">>

\* the tokens cut before each let and each return: the pairs <<first, last>>
\* of the pieces; i is the token looked at
RECURSIVE StatementRanges(_, _, _)
StatementRanges(ts, from, i) ==
    IF i > Len(ts) THEN <<<<from, Len(ts)>>>>
    ELSE IF ts[i].Type \in {LET_, RETURN}
    THEN <<<<from, i - 1>>>> \o StatementRanges(ts, i, i + 1)
    ELSE StatementRanges(ts, from, i + 1)

\* the piece from..to is let NAME = E [;] or return E [;]: its first token,
\* its name token and E parsed on its own at LOWEST
LetOrReturn(input, ts, calls, from, to) ==
    [tok |-> ts[from],
     name |-> IF from < to THEN ts[from + 1] ELSE ZeroToken,
     assign |-> TypeAt(ts, from + 2),
     e |-> parseExpression(
               New(NewLexer(TokenText(input, calls,
                   IF ts[from].Type = LET_ THEN from + 3 ELSE from + 1,
                   IF ts[to].Type = SEMICOLON THEN to - 1 ELSE to))),
               LOWEST)]

\* the piece is as the claim has it: let NAME = before E, and E one whole
\* expression without a diagnostic
LetOrReturnClean(piece) ==
    /\ piece.tok.Type = LET_ => (piece.name.Type = NAME /\ piece.assign = ASSIGN)
    /\ piece.e.p.errors = <<>>
    /\ nextTokenIs(piece.e.p, EOF)

\* the statement the claim promises for a piece
LetOrReturnStatement(piece) ==
    IF piece.tok.Type = LET_
    THEN LetStatement(piece.tok, Identifier(piece.name, piece.name.Literal),
                      piece.e.v)
    ELSE ReturnStatement(piece.tok, piece.e.v)

LetOrReturnPieces(input, ts, calls, ranges) ==
    [i \in DOMAIN ranges |->
        LetOrReturn(input, ts, calls, ranges[i][1], ranges[i][2])]

\* the program holds the statements of the pieces, in their order
PiecesParsed(pieces) ==
    (\A i \in DOMAIN pieces : LetOrReturnClean(pieces[i]))
        => /\ p.errors = <<>>
           /\ program = [i \in DOMAIN pieces |-> LetOrReturnStatement(pieces[i])]

LetsAndReturnsParsed(input, ts, calls) ==
    (ts # <<>> /\ ts[1].Type \in {LET_, RETURN})
        => PiecesParsed(LetOrReturnPieces(input, ts, calls,
                                          StatementRanges(ts, 1, 2)))

\* C19: a sequence of k statements let NAME = E [;] and return E [;], each E
\* parsing without a diagnostic, yields exactly k statements in source
\* order and no diagnostic: for each let a LetStatement whose Name is the
\* NAME and whose Value is E parsed at LOWEST, for each return a
\* ReturnStatement whose ReturnValue is E parsed at LOWEST.
C19_LetAndReturnStatements ==
    (Done /\ p.l.input # <<>> /\ p.l.input[1] \in {"l", "r"})
        => LetsAndReturnsParsed(p.l.input, InputTokens, InputCalls)

\* a let without its semicolon and then a return have been parsed
C19_Witness ==
    /\ Done
    /\ p.errors = <<>>
    /\ Len(program) = 2
    /\ program[1].kind = "LetStatement"
    /\ program[1].Value.kind = "InfixExpression"
    /\ program[2].kind = "ReturnStatement"
    /\ program[2].ReturnValue.kind = "CallExpression"
    /\ ";" \notin {p.l.input[i] : i \in DOMAIN p.l.input}

(***************************************************************************)
(* Full parenthesisation of the canonical rendering                        *)
(***************************************************************************)
\* the number of times ch occurs in s
Occurrences(s, ch) == Cardinality({i \in DOMAIN s : s[i] = ch})

\* the nodes of the tree of n, n included
RECURSIVE Nodes(_)
RECURSIVE NodesEach(_)
NodesEach(nodes) ==
    IF nodes = <<>> THEN {} ELSE Nodes(nodes[1]) \cup NodesEach(Tail(nodes))

Nodes(n) == {n} \cup NodesEach(Children(n))

\* the kinds of an operator application and of a call
ApplicationKinds == {"PrefixExpression", "InfixExpression", "CallExpression"}

\* how many nodes of the tree of n are of one of the kinds
RECURSIVE CountKinds(_, _)
RECURSIVE CountKindsEach(_, _)
CountKindsEach(nodes, kinds) ==
    IF nodes = <<>> THEN 0
    ELSE CountKinds(nodes[1], kinds) + CountKindsEach(Tail(nodes), kinds)

CountKinds(n, kinds) ==
    (IF n.kind \in kinds THEN 1 ELSE 0) + CountKindsEach(Children(n), kinds)

\* how often ch is written by the names
RECURSIVE OccurrencesEach(_, _)
OccurrencesEach(names, ch) ==
    IF names = <<>> THEN 0
    ELSE Occurrences(names[1].Value, ch) + OccurrencesEach(Tail(names), ch)

\* how often ch is written by the parameter names of the function literals
\* of the tree of n
RECURSIVE ParameterOccurrences(_, _)
RECURSIVE ParameterOccurrencesEach(_, _)
ParameterOccurrencesEach(nodes, ch) ==
    IF nodes = <<>> THEN 0
    ELSE ParameterOccurrences(nodes[1], ch)
         + ParameterOccurrencesEach(Tail(nodes), ch)

ParameterOccurrences(n, ch) ==
    (IF n.kind = "FunctionLiteral"
     THEN OccurrencesEach(n.Parameters.elems, ch) ELSE 0)
    + ParameterOccurrencesEach(Children(n), ch)

\* a prefix expression renders as "(" operator operand ")", an infix
\* expression as "(" left " " operator " " right ")"
RendersParenthesised(n) ==
    CASE n.kind = "PrefixExpression" ->
            String(n) = <<"(">> \o n.Operator \o String(n.Right) \o <<")">>
      [] n.kind = "InfixExpression" ->
            String(n) = <<"(">> \o String(n.Left) \o <<" ">> \o n.Operator
                        \o <<" ">> \o String(n.Right) \o <<")">>
      [] OTHER -> TRUE

\* the input with every space replaced by a line break and a tab, after a
\* leading space and before a trailing carriage return
RECURSIVE Respaced_From(_, _)
Respaced_From(input, i) ==
    IF i > Len(input) THEN <<"\r">>
    ELSE (IF input[i] = " " THEN <<"\n", "\t">> ELSE <<input[i]>>)
         \o Respaced_From(input, i + 1)

Respaced(input) == <<" ">> \o Respaced_From(input, 1)

\* the tokens of one character that no neighbour can extend
SelfDelimiting == {"(", ")", "+", "-", "*", "/"}

\* the input without the spaces next to a parenthesis or an arithmetic
\* operator
RECURSIVE Dense_From(_, _)
Dense_From(input, i) ==
    IF i > Len(input) THEN <<>>
    ELSE (IF /\ input[i] = " "
             /\ \/ i > 1 /\ input[i - 1] \in SelfDelimiting
                \/ i < Len(input) /\ input[i + 1] \in SelfDelimiting
          THEN <<>> ELSE <<input[i]>>)
         \o Dense_From(input, i + 1)

Dense(input) == Dense_From(input, 1)

\* the parse r found the program and the diagnostics of this parse
SameParse(r) == r.v = program /\ r.p.errors = p.errors

\* the input is one expression of operands, operators, calls and groups,
\* and holds no NUL byte
OneExpression ==
    /\ ~InputHas(NUL)
    /\ RefExpression(InputTokens).ok

\* the numbers of "(" and of ")" in the rendering s are both count
ParenthesisPairs(s, count) ==
    Occurrences(s, "(") = count /\ Occurrences(s, ")") = count

\* the parenthesis pairs of the rendering: one for each application, call
\* and parameter list, and what the parameter names write
PairsCounted(s, statements) ==
    /\ Occurrences(s, "(") =
          CountKindsEach(statements, ApplicationKinds)
          + CountKindsEach(statements, {"FunctionLiteral"})
          + ParameterOccurrencesEach(statements, "(")
    /\ Occurrences(s, ")") =
          CountKindsEach(statements, ApplicationKinds)
          + CountKindsEach(statements, {"FunctionLiteral"})
          + ParameterOccurrencesEach(statements, ")")

\* C20 as stated: the rendering of a parse without diagnostics holds one
\* parenthesis pair for each prefix application, infix application and call,
\* and no other.
C20_OnePairPerApplication ==
    (Done /\ p.errors = <<>>) =>
        ParenthesisPairs(ProgramString(program),
                         CountKindsEach(program, ApplicationKinds))

\* C20: every PrefixExpression renders as "(" operator operand ")" and every
\* InfixExpression as "(" left " " operator " " right ")"; the same input
\* spaced otherwise, or wrapped in parentheses when it is one expression,
\* renders the same; and the rendering of a parse without diagnostics holds
\* one parenthesis pair for each prefix application, infix application, call
\* and function literal's parameter list, and the parentheses its parameter
\* names write.
C20_FullParenthesisation ==
    (Done /\ p.errors = <<>>) =>
        /\ \A n \in NodesEach(program) : RendersParenthesised(n)
        /\ PairsCounted(ProgramString(program), program)
        /\ CountKindsEach(program, ApplicationKinds) > 0 =>
              /\ SameParse(ParseProgram(Respaced(p.l.input)))
              /\ SameParse(ParseProgram(Dense(p.l.input)))
              /\ OneExpression =>
                    ProgramString(ParseProgram(<<"(">> \o p.l.input \o <<")">>).v)
                    = ProgramString(program)

\* a parse without diagnostics of one parenthesised expression found a
\* prefix and an infix application
C20_Witness ==
    /\ Done
    /\ p.errors = <<>>
    /\ OneExpression
    /\ InputHas("(")
    /\ HasKind(program[1], "PrefixExpression")
    /\ HasKind(program[1], "InfixExpression")

(***************************************************************************)
(* The lexer's tokens, character by character                              *)
(***************************************************************************)
\* the kind of the token of each character that is a token by itself
SingleCharacterKinds ==
    ("+" :> PLUS) @@ ("-" :> MINUS) @@ ("*" :> STAR) @@ ("/" :> SLASH)
    @@ ("<" :> LT) @@ (">" :> GT) @@ ("!" :> BANG) @@ ("=" :> ASSIGN)
    @@ ("," :> COMMA) @@ (";" :> SEMICOLON) @@ ("(" :> LPAREN)
    @@ (")" :> RPAREN) @@ ("{" :> LBRACE) @@ ("}" :> RBRACE)

\* the call starts at = or ! followed by =
StartsPair(input, call) ==
    /\ charAt(input, call.at) \in {"=", "!"}
    /\ charAt(input, call.at + 1) = "="

\* a call that starts at a single character, which is not the first of ==
\* or !=, returns the token of its kind with the character as literal, and
\* no ILLEGAL token is one of these characters
SingleCharactersMapped(input, calls) ==
    \A i \in DOMAIN calls :
        /\ (/\ charAt(input, calls[i].at) \in DOMAIN SingleCharacterKinds
            /\ ~StartsPair(input, calls[i]))
            => calls[i].tok
               = Token(SingleCharacterKinds[charAt(input, calls[i].at)],
                       <<charAt(input, calls[i].at)>>)
        /\ calls[i].tok.Type = ILLEGAL
            => calls[i].tok.Literal[1] \notin DOMAIN SingleCharacterKinds

CallKinds(calls) == {calls[i].tok.Type : i \in DOMAIN calls}

RunEnd(input, from) ==
    CHOOSE j \in from..Len(input) :
        /\ ~isLetter(charAt(input, j))
        /\ \A k \in from..(j - 1) : isLetter(charAt(input, k))

\* the reserved words and their kinds
ReservedWord(literal) ==
    CASE literal = <<"f", "n">> -> FUNCTION
      [] literal = <<"l", "e", "t">> -> LET_
      [] literal = <<"t", "r", "u", "e">> -> TRUE_
      [] literal = <<"f", "a", "l", "s", "e">> -> FALSE_
      [] literal = <<"i", "f">> -> IF_
      [] literal = <<"e", "l", "s", "e">> -> ELSE_
      [] literal = <<"r", "e", "t", "u", "r", "n">> -> RETURN
      [] OTHER -> NAME

\* a call that starts at a letter or an underscore returns the whole run as
\* literal, of the kind of the reserved word it equals or else a name
IdentifiersLexed(input, calls) ==
    \A i \in DOMAIN calls :
        isLetter(charAt(input, calls[i].at))
            => /\ calls[i].tok.Literal
                  = SubSeq(input, calls[i].at + 1, RunEnd(input, calls[i].at))
               /\ ~isLetter(charAt(input, calls[i].at + Len(calls[i].tok.Literal)))
               /\ calls[i].tok.Type = ReservedWord(calls[i].tok.Literal)

\* C22: at a letter or underscore NextToken reads the maximal run of letters
\* and underscores as one token, so the character after the literal is never
\* a letter or an underscore; the token's kind is a keyword's exactly when
\* the whole run equals, case-sensitively, one of fn, let, true, false, if,
\* else, return, and the identifier kind otherwise.
C22_IdentifiersAndKeywords ==
    Done => IdentifiersLexed(p.l.input, InputCalls)

\* the tokens of the calls
CallTokens(calls) == {calls[i].tok : i \in DOMAIN calls}

\* the lexer has returned let and fn as keywords and letx, Let and fn_ as
\* names
C22_Witness ==
    /\ Done
    /\ {Token(LET_, <<"l", "e", "t">>), Token(NAME, <<"l", "e", "t", "x">>),
        Token(NAME, <<"L", "e", "t">>), Token(NAME, <<"f", "n", "_">>),
        Token(FUNCTION, <<"f", "n">>)} \subseteq CallTokens(InputCalls)

\* the literals of the tokens of the calls before the first EOF, one after
\* the other
RECURSIVE LiteralsUntilEOF(_, _)
LiteralsUntilEOF(calls, i) ==
    IF i > Len(calls) \/ calls[i].tok.Type = EOF THEN <<>>
    ELSE calls[i].tok.Literal \o LiteralsUntilEOF(calls, i + 1)

\* the text without its space, tab, carriage-return and newline characters
WithoutWhitespace(text) == SelectSeq(text, LAMBDA ch : ~isWhitespace(ch))

\* the index of the first call that returns EOF
FirstEOF(calls) ==
    CHOOSE i \in DOMAIN calls :
        calls[i].tok.Type = EOF /\ \A j \in 1..(i - 1) : calls[j].tok.Type # EOF

\* the literal of every call before the first EOF is the text between the
\* start of the call and the start of the next, white space excepted: each
\* character of the input that is not white space lies in the literal of
\* one token, no literal holds white space, and each call consumes at least
\* one character
Lossless(input, calls, eof) ==
    /\ LiteralsUntilEOF(calls, 1) = WithoutWhitespace(input)
    /\ \A i \in 1..(eof - 1) :
          /\ calls[i].tok.Literal # <<>>
          /\ calls[i].tok.Literal
             = SubSeq(input, calls[i].at + 1, calls[i].at + Len(calls[i].tok.Literal))
          /\ \A k \in DOMAIN calls[i].tok.Literal :
                ~isWhitespace(calls[i].tok.Literal[k])
          /\ calls[i + 1].at >= calls[i].at + Len(calls[i].tok.Literal)
          /\ \A k \in (calls[i].at + Len(calls[i].tok.Literal))..(calls[i + 1].at - 1) :
                isWhitespace(charAt(input, k))
    /\ calls[eof].at = Len(input)
    /\ \A k \in 0..(IF eof = 1 THEN Len(input) ELSE calls[1].at) - 1 :
          isWhitespace(charAt(input, k))

\* C30: for an input without the byte 0, the literals of the tokens that
\* successive calls of NextToken return up to the first EOF, concatenated,
\* are the input with its space, tab, carriage-return and newline bytes
\* removed; every other byte lies in the literal of exactly one token, no
\* literal holds white space, and every call before exhaustion consumes at
\* least one byte.
C30_LexerLossless ==
    (Done /\ ~InputHas(NUL)) =>
        Lossless(p.l.input, InputCalls, FirstEOF(InputCalls))

\* the lexer has skipped a tab, a space, a line break and a carriage return
\* between a keyword, a name, an operator of two characters, an integer and
\* an illegal token
C30_Witness ==
    /\ Done
    /\ ~InputHas(NUL)
    /\ InputHas("\t") /\ InputHas(" ") /\ InputHas("\n") /\ InputHas("\r")
    /\ {LET_, NAME, EQ, INT, ILLEGAL} \subseteq CallKinds(InputCalls)

(***************************************************************************)
(* Integer literals out of range                                           *)
(***************************************************************************)
\* the token is an integer literal, without a leading zero, of a value
\* above 2^63 - 1
TooLarge(tok) ==
    /\ tok.Type = INT
    /\ tok.Literal[1] # "0"
    /\ \/ Len(tok.Literal) > Len(MaxInt64Digits)
       \/ /\ Len(tok.Literal) = Len(MaxInt64Digits)
          /\ digitsLess(MaxInt64Digits, tok.Literal)

\* the diagnostic of a failed conversion of the literal
CouldNotParse(literal) ==
    [msg |-> "could not parse as integer", literal |-> literal]

\* r is parseIntegerLiteral's result on q at a literal out of range: one
\* more diagnostic, nothing returned, the cursor where it was
ConversionFailureRecorded(q, r) ==
    /\ r.v = Nil
    /\ r.p.errors = Append(q.errors, CouldNotParse(q.currToken.Literal))
    /\ r.p.currToken = q.currToken
    /\ r.p.peekToken = q.peekToken
    /\ r.p.l = q.l
    /\ r.p.progress = q.progress

\* a diagnostic without the trace it carries
WithoutTrace(e) == [f \in DOMAIN e \ {"parsing"} |-> e[f]]

WithoutTraces(errors) == [i \in DOMAIN errors |-> WithoutTrace(errors[i])]

\* the input starts with a literal out of range that no operator or call
\* follows: the parse is an expression statement without its expression and
\* one diagnostic, then the parse r of what follows the literal and its
\* semicolon
ContinuesAfterFailure(ts, r) ==
    /\ program = <<ExpressionStatement(ts[1], Nil)>> \o r.v
    /\ WithoutTraces(p.errors)
       = <<CouldNotParse(ts[1].Literal)>> \o WithoutTraces(r.p.errors)

\* where the rest of the input starts: after the literal and one semicolon
RestAfterFirst(input, ts, calls) ==
    IF Len(ts) >= 2 /\ ts[2].Type = SEMICOLON
    THEN SubSeq(input, calls[3].at + 1, Len(input))
    ELSE SubSeq(input, calls[2].at + 1, Len(input))

ContinuesAfterLarge(input, ts, calls) ==
    (/\ TooLarge(ts[1])
     /\ Len(ts) >= 2 => ts[2].Type \in {SEMICOLON, LET_, NAME, INT})
        => ContinuesAfterFailure(ts, ParseProgram(RestAfterFirst(input, ts, calls)))

RequiredKinds == {NAME, ASSIGN, LPAREN, RPAREN, LBRACE}

\* r is the result of the check for t on q when the peek token is of
\* another kind: one more diagnostic with t, the peek kind and the trace;
\* false; the cursor and the trace where they were
CheckFailed(q, t, r) ==
    /\ ~r.ok
    /\ Len(r.p.errors) = Len(q.errors) + 1
    /\ SubSeq(r.p.errors, 1, Len(q.errors)) = q.errors
    /\ r.p.errors[Len(r.p.errors)].expected = t
    /\ r.p.errors[Len(r.p.errors)].got = q.peekToken.Type
    /\ r.p.errors[Len(r.p.errors)].parsing = q.progress
    /\ r.p.currToken = q.currToken
    /\ r.p.peekToken = q.peekToken
    /\ r.p.l = q.l
    /\ r.p.progress = q.progress

\* r is the result of the check for t on q when the peek token is of kind
\* t: true, no diagnostic, the cursor one token further
CheckPassed(q, r) ==
    /\ r.ok
    /\ r.p.errors = q.errors
    /\ r.p.currToken = q.peekToken
    /\ r.p.peekToken = NextToken(q.l).tok
    /\ r.p.l = NextToken(q.l).l

CheckedAs(q, t, r) ==
    IF q.peekToken.Type = t THEN CheckPassed(q, r) ELSE CheckFailed(q, t, r)

\* C24: advanceIfNextTokenIs(t) with a peek token of another kind than t
\* appends exactly one diagnostic with the expected kind t, the peek kind
\* and the current trace, returns false and leaves currToken, peekToken,
\* the lexer position and the trace unchanged; with a peek token of kind t
\* it advances the cursor by exactly one token, appends no diagnostic and
\* returns true.
C24_RequiredTokenCheck ==
    \A t \in RequiredKinds : CheckedAs(p, t, advanceIfNextTokenIs(p, t))

\* the parser stands where a check for `(` would pass and one for `{` would
\* fail, after a check of a parse rule has failed with a trace of several
\* literals
C24_Witness ==
    /\ pc = "loop"
    /\ nextTokenIs(p, LPAREN)
    /\ \E i \in DOMAIN p.errors :
          /\ p.errors[i].msg = "expected next token"
          /\ Len(p.errors[i].parsing) >= 2
          /\ p.errors[i].got # EOF

(***************************************************************************)
(* The progress trace                                                      *)
(***************************************************************************)
\* this step is an iteration of ParseProgram's loop
Iterates == pc = "loop" /\ pc' = "loop" /\ p' # p

\* the iteration has appended a statement and recorded no diagnostic
CompletedStatement ==
    /\ Len(program') = Len(program) + 1
    /\ p'.errors = p.errors

\* the trace after the step starts with the trace before it and is longer
TraceKept ==
    /\ Len(p'.progress) > Len(p.progress)
    /\ SubSeq(p'.progress, 1, Len(p.progress)) = p.progress

\* the trace after the step holds only the literal of the token that the
\* loop's advance made current
TraceCleared == p'.progress = <<p'.currToken.Literal>>

\* C25: the progress trace is emptied exactly when a top-level statement
\* has completed successfully, parsed without failure and appended to the
\* program; an iteration whose statement failed leaves the trace uncleared,
\* so that the trace in a diagnostic lists the literals of all tokens made
\* current since the last statement that completed.
C25_TraceClearedOnSuccessOnly ==
    [][Iterates => IF CompletedStatement THEN TraceCleared ELSE TraceKept]_vars

\* C26: for every program that ParseProgram returns, with or without
\* diagnostics, Program.String() and Program.TokenLiteral() complete without
\* dereferencing an absent statement, operand, condition, block or body.
C26_RenderingNeverPanics ==
    Done => /\ ~Panics(ProgramString(program))
            /\ ~Panics(ProgramTokenLiteral(program))

(***************************************************************************)
(* The cursor on the token stream                                          *)
(***************************************************************************)
\* how many calls of NextToken the lexer of q has answered: those that
\* start before its position
CallsMade(q, calls) ==
    Cardinality({i \in DOMAIN calls : calls[i].at < q.l.currPosition})

\* the index of q's current token in the stream: the peek token is the last
\* one read
CurrIndex(q, calls) == CallsMade(q, calls) - 1

\* currToken and peekToken are two neighbours of the stream
CursorOnStream(q, calls) ==
    /\ q.currToken = calls[CurrIndex(q, calls)].tok
    /\ q.peekToken = calls[CurrIndex(q, calls) + 1].tok

\* the literals of the tokens after the i-th up to the j-th
LiteralsBetween(calls, i, j) == [k \in 1..(j - i) |-> calls[i + k].tok.Literal]

\* an iteration from q, whose statement rule returns s, to q2: the rule
\* makes current, one by one, the tokens from the head's up to the last it
\* consumed, and the loop then makes current the one after that
Partitioned(q, s, q2, calls) ==
    /\ CursorOnStream(q, calls)
    /\ CursorOnStream(s, calls)
    /\ CursorOnStream(q2, calls)
    /\ CurrIndex(s, calls) >= CurrIndex(q, calls)
    /\ s.progress
       = q.progress
         \o LiteralsBetween(calls, CurrIndex(q, calls), CurrIndex(s, calls))
    /\ CurrIndex(q2, calls) = CurrIndex(s, calls) + 1
    /\ q.currToken.Type # EOF

\* the calls the parser makes on its input, those after its end included
ParserCalls == lexCalls(NewLexer(p.l.input), CallsAtEnd + 2)

\* C27: the first head of ParseProgram's loop is on the first token; each
\* statement rule returns with currToken on the last token it consumed and
\* ParseProgram then advances exactly once, so that each head is on the
\* first token no earlier statement consumed: on every input, with or
\* without errors, no token before EOF is skipped and none belongs to two
\* top-level statements.
C27_StatementsPartitionTokens ==
    [][Iterates =>
          /\ Partitioned(p, parseStatement(p).p, p', ParserCalls)
          /\ program = <<>> => CurrIndex(p, ParserCalls) = 1]_vars

\* a parse of several statements, one of them with a block, has returned
\* with diagnostics
C27_Witness ==
    /\ Done
    /\ Len(program) >= 2
    /\ p.errors # <<>>
    /\ InputHas("{")
    /\ InputHas(";")

(***************************************************************************)
(* Blocks without their closing brace                                      *)
(***************************************************************************)
\* the kinds of the tokens up to the i-th
KindsUpTo(ts, i) == [k \in 1..i |-> ts[k].Type]

\* what may stand before a block: if ( name ) {, fn ( ) {, fn ( name ) {
BlockHeaders ==
    {<<IF_, LPAREN, NAME, RPAREN, LBRACE>>,
     <<FUNCTION, LPAREN, RPAREN, LBRACE>>,
     <<FUNCTION, LPAREN, NAME, RPAREN, LBRACE>>}

\* the input is one of the headers and a body that no } closes
Unterminated(ts, b) ==
    /\ b > 0
    /\ KindsUpTo(ts, b) \in BlockHeaders
    /\ \A i \in DOMAIN ts : ts[i].Type # RBRACE

\* the expression of the header with the statements as its block
HeaderWith(ts, b, statements) ==
    IF ts[1].Type = IF_
    THEN IfExpression(ts[1], Identifier(ts[3], ts[3].Literal),
                      BlockStatement(ts[b], statements), Nil)
    ELSE FunctionLiteral(ts[1],
             Slice(IF b = 5 THEN <<Identifier(ts[3], ts[3].Literal)>> ELSE <<>>),
             BlockStatement(ts[b], statements))

\* the parse is the header's expression over the statements of the body,
\* and its diagnostics are those of the body, none for the missing brace
BodyOnly(ts, b, body) ==
    /\ program = <<ExpressionStatement(ts[1], HeaderWith(ts, b, body.v))>>
    /\ WithoutTraces(p.errors) = WithoutTraces(body.p.errors)

UnterminatedParsed(input, ts, calls, b) ==
    Unterminated(ts, b)
        => BodyOnly(ts, b,
               ParseProgram(SubSeq(input, calls[b + 1].at + 1, Len(input))))

\* r is the result of parseBlockStatement: a block, the cursor on } or EOF
BlockReturned(r) ==
    /\ r.v.kind = "BlockStatement"
    /\ r.p.currToken.Type \in {RBRACE, EOF}

\* C28: parseBlockStatement always returns with currToken on } or EOF and
\* a BlockStatement that is not absent; when it stops at EOF because the
\* closing } is missing, neither it nor its caller records a diagnostic for
\* the missing brace, so that such an input can finish without diagnostics.
C28_UnterminatedBlocks ==
    /\ \A i \in DOMAIN p.log :
          p.log[i].event = "blockEnd" => p.log[i].at \in {RBRACE, EOF}
    /\ (pc = "loop" /\ currTokenIs(p, LBRACE))
          => BlockReturned(parseBlockStatement(p))
    /\ (Done /\ InputHas("{") /\ ~InputHas("}") /\ ~InputHas(NUL)
             /\ p.l.input[1] \in {"i", "f"})
          => UnterminatedParsed(p.l.input, InputTokens, InputCalls,
                                FirstIndex(InputTokens, LBRACE))

\* the parse of an if or a function literal whose block of one statement
\* or more is not closed has returned without a diagnostic
C28_Witness ==
    /\ Done
    /\ p.errors = <<>>
    /\ Unterminated(InputTokens, FirstIndex(InputTokens, LBRACE))
    /\ Len(InputTokens) > FirstIndex(InputTokens, LBRACE)
    /\ \E i \in DOMAIN p.log : p.log[i].event = "blockEnd" /\ p.log[i].at = EOF

(***************************************************************************)
(* Semicolons after a statement                                            *)
(***************************************************************************)
\* the length of the text before its trailing semicolons and spaces
HeadLength(input) ==
    IF \A i \in DOMAIN input : input[i] \in {";", " "} THEN 0
    ELSE CHOOSE i \in DOMAIN input :
             /\ input[i] \notin {";", " "}
             /\ \A j \in (i + 1)..Len(input) : input[j] \in {";", " "}

\* the number of semicolons after the head
TrailingSemicolons(input, head) ==
    Cardinality({i \in (head + 1)..Len(input) : input[i] = ";"})

\* n expression statements on a semicolon, each without its expression
AbsentOnSemicolon(n) ==
    [i \in 1..n |-> ExpressionStatement(Token(SEMICOLON, <<";">>), Nil)]

\* n diagnostics for the missing prefix parse function of the semicolon
NoPrefixForSemicolon(n) ==
    [i \in 1..n |-> [msg |-> "no prefix parse function", type |-> SEMICOLON]]

\* r is the parse, without a diagnostic, of the text before the trailing n
\* semicolons: after a let or a return statement they change nothing; an
\* expression statement consumes one, and so does the statement without
\* expression that each further one starts, with its diagnostic
SemicolonsConsumed(r, n) ==
    (r.p.errors = <<>> /\ r.v # <<>>)
        => IF r.v[Len(r.v)].kind \in {"LetStatement", "ReturnStatement"}
           THEN program = r.v /\ p.errors = <<>>
           ELSE /\ program = r.v \o AbsentOnSemicolon(n \div 2)
                /\ p.errors = NoPrefixForSemicolon(n \div 2)

\* C29: parseLetStatement and parseReturnStatement consume every semicolon
\* that follows the value, parseExpressionStatement one at most: let x = 5;;
\* and return 5;; finish with no diagnostic and one statement, 5;; with one
\* no prefix parse function diagnostic for the second semicolon and one more
\* ExpressionStatement, whose Expression is absent.
C29_RepeatedSemicolons ==
    (Done /\ p.l.input # <<>> /\ p.l.input[Len(p.l.input)] = ";"
          /\ ~InputHas("{") /\ ~InputHas(NUL) /\ HeadLength(p.l.input) > 0)
        => SemicolonsConsumed(
               ParseProgram(SubSeq(p.l.input, 1, HeadLength(p.l.input))),
               TrailingSemicolons(p.l.input, HeadLength(p.l.input)))

\* a return statement followed by two semicolons or more has been parsed
\* without a diagnostic
C29_Witness ==
    /\ Done
    /\ p.errors = <<>>
    /\ Len(program) = 1
    /\ program[1].kind = "ReturnStatement"
    /\ TrailingSemicolons(p.l.input, HeadLength(p.l.input)) >= 2

=============================================================================
